---------------------------- MODULE Spec2Model ----------------------------
(***************************************************************************)
(* Model of the loot generation of LocationGenerator (static containers,   *)
(* loose loot) with the sampler and the container grid it relies on.       *)
(*                                                                         *)
(* Ids are integers: ids made by objectId.generate() are 1, 2, 3, ...;     *)
(* ids read from the database tables are negative; NoId stands for an      *)
(* undefined parentId.  Probabilities are percentages (100 is 1).          *)
(***************************************************************************)
EXTENDS Integers, Sequences, FiniteSets, TLC

VARIABLES
    nextId,             \* next value objectId.generate() returns
    seasonalEventActive, \* seasonalEventService.seasonalEventEnabled()
    \* ---- addLootToContainer (one container) ----
    cpc,                \* "idle" | "start" | "place" | "done" | "failed"
    ccfg,               \* locationConfig and staticForced: [allowDup, fitAttempts, mult, minFill, forced]
    staticContainer,    \* the container of the table passed in
    container,          \* the clone being filled: [Id, Root, Items]
    containerMap,       \* occupancy grid of the container
    tplsToAddToContainer, \* tpls still to be placed
    chosenTpls,         \* what containerLootPool.draw returned
    failedToFitCount,
    fitLog,             \* history: how each turn of the placement loop ended
    \* ---- generateStaticContainers ----
    spc,                \* "idle" | "start" | "guaranteed" | "all" | "groups" | "done" | "failed"
    scfg,               \* containerRandomisationSettings, the sampler's default, and the
                        \* tables db.loot.staticContainers[map] lacks (missing)
    staticContainers,   \* db.loot.staticContainers[map].staticContainers
    statics,            \* db.locations[map].statics.containers: container id -> groupId
    result,             \* the templates pushed so far
    queue,              \* containers the running loop has still to visit
    mapping,            \* groupId -> [containerIdsWithProbability, chosenCount]
    groupsLeft,         \* group ids the loop over mapping has still to visit
    chosenLog,          \* what getContainersByProbabilty returned, per group visited
    logged,             \* the errors and warnings the pass has logged
    thrown,             \* "" or what ended the pass with an exception
    \* ---- generateDynamicLoot ----
    dpc,                \* "idle" | "forced" | "choose" | "populate" | "done" | "failed"
    dcfg,               \* locationConfig: [single, blacklist, minFillLoose]
    spawnpointsForced,  \* dynamicLootDist.spawnpointsForced
    spawnpoints,        \* dynamicLootDist.spawnpoints
    loot,               \* the templates pushed so far
    desiredSpawnpointCount,
    guaranteedLoosePoints,
    spawnpointArray,    \* the pool of the points with probability below 1
    drawnKeys,          \* what spawnpointArray.draw returned
    chosenSpawnpoints,  \* the chosen points, after the duplicates are filtered out
    pointsLeft,         \* chosen points the loop has still to visit
    shortfallLog,       \* the requested-vs-found messages logged
    \* ---- ProfileFixerService.fixNullTraderNextResupply ----
    fpc,                \* "idle" | "run"
    tradersInfo,        \* pmcProfile.TradersInfo: trader id -> nextResupply
    tradersInfoBefore,  \* history: TradersInfo before the first call
    fixCount,           \* history: calls made so far
    \* ---- reparentItemAndChildren (one call) ----
    rpc,                \* "idle" | "start" | "done"
    tree,               \* the itemWithChildren array passed in
    treeBefore,         \* history: the array before the call
    treeNewId,          \* the newId passed in
    \* ---- SptHttpListener (one request) ----
    hpc,                \* "idle" | "start" | "receiving" | "routing" | "sent" | "ignored"
    req,                \* [method, responsecompressed, requestcompressed, contentLength]
    serializers,        \* this.serializers: canHandle(output) of each, in order
    pending,            \* the chunks of the body still on the wire
    arrived,            \* history: the chunks delivered as data events, in order
    hbuffer,            \* buffer
    written,            \* written
    routeLog,           \* the bodies getResponse was called with
    writers,            \* the response writers invoked, in order
    \* ---- ProfileHelper.getCompleteProfile ----
    ppc,                \* "idle" | "run"
    profile,            \* the stored full profile: [info, characters]
    snapshot,           \* profileSnapshotService's snapshot of the session
    pouts,              \* the arrays returned so far, one per call
    profile0,           \* history: the stored profile before the first call
    snapshot0,          \* history: the snapshot before the first call
    \* ---- ProfileHelper gifts ----
    gpc,                \* "idle" | "run"
    gprofile,           \* [exists, hasGifts, receivedGifts]
    flagged,            \* history: gift id -> calls of flagGiftReceivedInProfile
    gclock,             \* timeUtil.getTimestamp()
    gthrown,            \* a call threw
    lastCheck           \* the last call of playerHasRecievedMaxNumberOfGift

fvars == <<fpc, tradersInfo, tradersInfoBefore, fixCount>>

rvars == <<rpc, tree, treeBefore, treeNewId>>

\* the variables of the helpers modelled on their own
hvars == <<hpc, req, serializers, pending, arrived, hbuffer, written, routeLog, writers>>

pvars == <<ppc, profile, snapshot, pouts, profile0, snapshot0>>

gvars == <<gpc, gprofile, flagged, gclock, gthrown, lastCheck>>

xvars == <<fvars, rvars, hvars, pvars, gvars>>

dvars == <<dpc, dcfg, spawnpointsForced, spawnpoints, loot, desiredSpawnpointCount,
           guaranteedLoosePoints, spawnpointArray, drawnKeys, chosenSpawnpoints,
           pointsLeft, shortfallLog>>

svars == <<spc, scfg, staticContainers, statics, result, queue, mapping,
           groupsLeft, chosenLog, logged, thrown>>

cvars == <<cpc, ccfg, staticContainer, container, containerMap, tplsToAddToContainer,
           chosenTpls, failedToFitCount, fitLog>>

NoId == 0

-----------------------------------------------------------------------------
(* Bounds of the model *)

\* grid of the larger container type
GridW == 3
GridH == 2
\* largest item count an itemcountDistribution offers
MaxItemCount == 3
\* containers on the map
NumContainers == 3
\* maxContainers of the container group
MaxGroupCount == 2
\* traders in the profile
NumTraders == 3
\* calls of fixNullTraderNextResupply on one profile
MaxFixes == 2
\* nodes of the array reparentItemAndChildren is given
MaxNodes == 3
\* loose loot spawn points on the map
NumSpawnpoints == 3
\* largest desired spawn point count drawn
MaxDesired == 3

-----------------------------------------------------------------------------
(* Generic helpers *)

Range(s) == {s[i] : i \in 1..Len(s)}

RECURSIVE SeqOfSet(_)
\* a set of integers as an ascending sequence
SeqOfSet(S) ==
    IF S = {} THEN <<>>
    ELSE LET m == CHOOSE x \in S : \A y \in S : x <= y
         IN  <<m>> \o SeqOfSet(S \ {m})

RECURSIVE SelectIdx(_, _, _)
\* indexes i >= from of s with s[i] in S, ascending
SelectIdx(s, S, from) ==
    IF from > Len(s) THEN <<>>
    ELSE (IF s[from] \in S THEN <<from>> ELSE <<>>) \o SelectIdx(s, S, from + 1)


-----------------------------------------------------------------------------
(* ProbabilityObjectArray: the weighted sampler.  A pool is a sequence of   *)
(* [key, w] entries.  DrawSet is the set of results draw() can return.      *)

RemoveAt(s, i) == SubSeq(s, 1, i - 1) \o SubSeq(s, i + 1, Len(s))

RECURSIVE DrawSet(_, _, _, _)
\* draw(count, replacement, locklist): each step takes an entry of positive
\* weight; the entry leaves the pool unless drawing with replacement or its
\* key is on the locklist; the draw ends early when nothing is left to take
DrawSet(pool, count, replacement, locklist) ==
    LET positive == {i \in 1..Len(pool) : pool[i].w > 0}
    IN  IF count <= 0 \/ positive = {} THEN {<<>>}
        ELSE UNION {
               LET k    == pool[i].key
                   rest == IF replacement \/ k \in locklist
                           THEN pool ELSE RemoveAt(pool, i)
               IN  {<<k>> \o s : s \in DrawSet(rest, count - 1, replacement, locklist)}
               : i \in positive }

-----------------------------------------------------------------------------
(* ContainerHelper: the container grid.  A grid is a function from <<y, x>> *)
(* (0-based) to 0 (free) or 1 (occupied).                                   *)

GridRows(grid) == {c[1] : c \in DOMAIN grid}
GridCols(grid) == {c[2] : c \in DOMAIN grid}

\* the cells of a w x h rectangle whose top-left cell is (x, y)
Rect(x, y, w, h) == {<<yy, xx>> : yy \in y..(y + h - 1), xx \in x..(x + w - 1)}

LocateSlot(grid, x, y, w, h) ==
    /\ Rect(x, y, w, h) \subseteq DOMAIN grid
    /\ \A c \in Rect(x, y, w, h) : grid[c] = 0

\* row-major scan; at each cell the item is tried as it is, then rotated
FindSlotForItem(grid, w, h) ==
    LET nCols  == Cardinality(GridCols(grid))
        fits(c) == LocateSlot(grid, c[2], c[1], w, h) \/ LocateSlot(grid, c[2], c[1], h, w)
        cands  == {c \in DOMAIN grid : fits(c)}
    IN  IF cands = {} THEN [success |-> FALSE, x |-> 0, y |-> 0, rotation |-> FALSE]
        ELSE LET c == CHOOSE a \in cands :
                        \A b \in cands : a[1] * nCols + a[2] <= b[1] * nCols + b[2]
             IN  [success |-> TRUE, x |-> c[2], y |-> c[1],
                  rotation |-> ~LocateSlot(grid, c[2], c[1], w, h)]

FillContainerMapWithItem(grid, x, y, w, h, rotation) ==
    LET cells == IF rotation THEN Rect(x, y, h, w) ELSE Rect(x, y, w, h)
    IN  [c \in DOMAIN grid |-> IF c \in cells THEN 1 ELSE grid[c]]

-----------------------------------------------------------------------------
(* The item database (ItemHelper.getItem, isOfBaseclass) and the presets    *)

Tpls == {"ROUBLES", "DOLLARS", "EUROS", "key", "pipe", "case",
         "rifle", "barerifle", "badrifle", "mag", "round", "xmas"}

\* seasonalEventService.getAllSeasonalEventItems()
SeasonalItemTplBlacklist == {"xmas"}

ItemDb ==
    [t \in Tpls |->
        CASE t \in {"ROUBLES", "DOLLARS", "EUROS"}
                             -> [class |-> "MONEY",    Width |-> 1, Height |-> 1]
          [] t \in {"key", "xmas"}
                             -> [class |-> "OTHER",    Width |-> 1, Height |-> 1]
          [] t = "pipe"      -> [class |-> "OTHER",    Width |-> 1, Height |-> 2]
          [] t = "case"      -> [class |-> "OTHER",    Width |-> 2, Height |-> 2]
          [] t = "mag"       -> [class |-> "MAGAZINE", Width |-> 1, Height |-> 1,
                                 maxCount |-> 2]
          [] t = "round"     -> [class |-> "AMMO",     Width |-> 1, Height |-> 1]
          [] OTHER           -> [class |-> "WEAPON",   Width |-> 2, Height |-> 1]]

IsOfBaseclass(tpl, class) == ItemDb[tpl].class = class

Node(id, tpl, parentId, slotId) ==
    [_id |-> id, _tpl |-> tpl, parentId |-> parentId, slotId |-> slotId, location |-> <<>>,
     upd |-> 0]

\* presetHelper.getDefaultPreset: <<>> when the weapon has none
DefaultPreset(tpl) ==
    CASE tpl = "rifle"    -> <<Node(-101, "rifle", NoId, ""),
                               Node(-102, "mag", -101, "mod_magazine")>>
      [] tpl = "badrifle" -> <<Node(-111, "badrifle", NoId, ""),
                               Node(-112, "mag", -110, "mod_magazine")>>
      [] OTHER            -> <<>>

-----------------------------------------------------------------------------
(* Item construction *)

\* ragfairServerHelper.reparentPresets(item, preset): the preset with item as
\* its first node and a fresh id for every other node, parentIds following;
\* fails when a node hangs on an id the preset does not hold
ReparentPresets(item, preset, n) ==
    LET oldIds   == {preset[i]._id : i \in 1..Len(preset)}
        newId(i) == IF i = 1 THEN item._id ELSE n + i - 2
        idOf(old) == newId(CHOOSE i \in 1..Len(preset) : preset[i]._id = old)
        broken   == \E i \in 2..Len(preset) : preset[i].parentId \notin oldIds
    IN  IF broken
        THEN [threw |-> TRUE, items |-> <<>>, nextId |-> n]
        ELSE [threw |-> FALSE,
              items |-> [i \in 1..Len(preset) |->
                            IF i = 1 THEN item
                            ELSE [preset[i] EXCEPT !._id = newId(i),
                                                   !.parentId = idOf(@)]],
              nextId |-> n + Len(preset) - 1]

\* Math.round of percent / 100 * count
RoundPercent(percent, count) == (percent * count + 50) \div 100

\* the minSizePercent fillMagazineWithRandomCartridge takes when the caller
\* passes none, as a percentage: not visible in the source, so one of these
MagazineMinSizeDefaults == {25, 100}

\* itemHelper.fillMagazineWithRandomCartridge: the magazine followed by its
\* cartridges, a new node hanging on the magazine whose stack count is
\* between the rounded minimum and the magazine's capacity
FillMagazineWithRandomCartridge(magazine, n, minSizePercent) ==
    {[items  |-> <<magazine,
                   [Node(n, "round", magazine._id, "cartridges") EXCEPT !.upd = count]>>,
      nextId |-> n + 1] :
     count \in RoundPercent(minSizePercent, ItemDb[magazine._tpl].maxCount)
                  ..ItemDb[magazine._tpl].maxCount}

\* items with the node at index i replaced by the sequence repl (splice)
Splice(items, i, repl) == SubSeq(items, 1, i - 1) \o repl \o SubSeq(items, i + 1, Len(items))

CreateStaticLootItemPresetRequired(tpl, parentId, n, minFillStaticMagazinePercent) ==
    LET root == Node(n, tpl, parentId, "")
        n1   == n + 1
        w    == ItemDb[tpl].Width
        h    == ItemDb[tpl].Height
        plain(items, next) ==
            [threw |-> FALSE, items |-> items, width |-> w, height |-> h, nextId |-> next]
        failed(next) ==
            [threw |-> TRUE, items |-> <<>>, width |-> w, height |-> h, nextId |-> next]
    IN  CASE IsOfBaseclass(tpl, "MONEY") \/ IsOfBaseclass(tpl, "AMMO") ->
                {plain(<<root>>, n1)}
          [] IsOfBaseclass(tpl, "WEAPON") ->
                LET defaultPreset == DefaultPreset(tpl)
                    first == IF defaultPreset # <<>>
                             THEN ReparentPresets(defaultPreset[1], defaultPreset, n1)
                             ELSE [threw |-> TRUE, items |-> <<>>, nextId |-> n1]
                    second == IF Len(first.items) > 0
                              THEN ReparentPresets(root, first.items, first.nextId)
                              ELSE [threw |-> FALSE, items |-> <<root>>, nextId |-> first.nextId]
                    items  == second.items
                    mags   == {i \in 1..Len(items) : items[i].slotId = "mod_magazine"}
                IN  IF first.threw \/ second.threw THEN {failed(first.nextId)}
                    ELSE IF mags = {} THEN {plain(items, second.nextId)}
                    ELSE LET m == CHOOSE i \in mags : \A j \in mags : i <= j
                         IN  {plain(Splice(items, m, fill.items), fill.nextId) :
                              fill \in UNION {FillMagazineWithRandomCartridge(
                                                 items[m], second.nextId, minSize) :
                                              minSize \in MagazineMinSizeDefaults}}
          [] IsOfBaseclass(tpl, "MAGAZINE") ->
                {plain(Splice(<<root>>, 1, fill.items), fill.nextId) :
                 fill \in FillMagazineWithRandomCartridge(root, n1, minFillStaticMagazinePercent)}
          [] OTHER ->
                {plain(<<root>>, n1)}

\* createStaticLootItem: the results it can give, each with the item's nodes,
\* its size and the id counter left; threw when the preset cannot be reparented.
\* The magazine of a weapon is filled at line 828 with no minSizePercent, so
\* the helper's default applies there
CreateStaticLootItem(tpl, parentId, n, minFillStaticMagazinePercent) ==
    LET root == Node(n, tpl, parentId, "")
        n1   == n + 1
        w    == ItemDb[tpl].Width
        h    == ItemDb[tpl].Height
        plain(items, next) ==
            [threw |-> FALSE, items |-> items, width |-> w, height |-> h, nextId |-> next]
        failed(next) ==
            [threw |-> TRUE, items |-> <<>>, width |-> w, height |-> h, nextId |-> next]
    IN  CASE IsOfBaseclass(tpl, "MONEY") \/ IsOfBaseclass(tpl, "AMMO") ->
                {plain(<<root>>, n1)}
          [] IsOfBaseclass(tpl, "WEAPON") ->
                LET defaultPreset == DefaultPreset(tpl)
                    first == IF defaultPreset # <<>>
                             THEN ReparentPresets(defaultPreset[1], defaultPreset, n1)
                             ELSE [threw |-> FALSE, items |-> <<>>, nextId |-> n1]
                    second == IF Len(first.items) > 0
                              THEN ReparentPresets(root, first.items, first.nextId)
                              ELSE [threw |-> FALSE, items |-> <<root>>, nextId |-> first.nextId]
                    items  == second.items
                    mags   == {i \in 1..Len(items) : items[i].slotId = "mod_magazine"}
                IN  IF first.threw \/ second.threw THEN {failed(first.nextId)}
                    ELSE IF mags = {} THEN {plain(items, second.nextId)}
                    ELSE LET m == CHOOSE i \in mags : \A j \in mags : i <= j
                         IN  {plain(Splice(items, m, fill.items), fill.nextId) :
                              fill \in UNION {FillMagazineWithRandomCartridge(
                                                 items[m], second.nextId, minSize) :
                                              minSize \in MagazineMinSizeDefaults}}
          [] IsOfBaseclass(tpl, "MAGAZINE") ->
                {plain(Splice(<<root>>, 1, fill.items), fill.nextId) :
                 fill \in FillMagazineWithRandomCartridge(root, n1, minFillStaticMagazinePercent)}
          [] OTHER ->
                {plain(<<root>>, n1)}

-----------------------------------------------------------------------------
(* addLootToContainer *)

ContainerTpls == {"crate", "safe", "bag", "drawer"}

\* _props.Grids[0]._props of the container templates
ContainerDb ==
    [t \in ContainerTpls |->
        CASE t = "crate"  -> [cellsH |-> GridW, cellsV |-> GridH]
          [] t = "drawer" -> [cellsH |-> 2, cellsV |-> 1]
          [] OTHER        -> [cellsH |-> 2, cellsV |-> 2]]

\* getContainerMapping: an empty grid of cellsV rows and cellsH columns
GetContainerMapping(containerTpl) ==
    [c \in (0..(ContainerDb[containerTpl].cellsV - 1))
           \X (0..(ContainerDb[containerTpl].cellsH - 1)) |-> 0]

Entry(tpl, p) == [tpl |-> tpl, relativeProbability |-> p]

\* db.loot.staticLoot
StaticLootDist ==
    [t \in ContainerTpls |->
        [itemcountDistribution |->
            IF t \in {"crate", "safe"}
            THEN [i \in 1..(MaxItemCount + 1) |-> [count |-> i - 1, relativeProbability |-> 1]]
            ELSE <<[count |-> 1, relativeProbability |-> 1]>>,
         itemDistribution |->
            CASE t = "crate" -> <<Entry("ROUBLES", 5), Entry("key", 3), Entry("pipe", 2),
                                  Entry("case", 1), Entry("rifle", 1)>>
              [] t = "safe"  -> <<Entry("ROUBLES", 4), Entry("DOLLARS", 2), Entry("key", 2),
                                  Entry("barerifle", 1), Entry("badrifle", 1)>>
              [] t = "bag"   -> <<Entry("ROUBLES", 4), Entry("badrifle", 1),
                                  Entry("xmas", 2)>>
              [] OTHER       -> <<Entry("rifle", 1)>>]]

\* the item counts getWeightedCountOfContainerItems can return
GetWeightedCountOfContainerItems(containerTpl, multiplier) ==
    LET dist == StaticLootDist[containerTpl].itemcountDistribution
        itemCountArray == [i \in 1..Len(dist) |->
                              [key |-> dist[i].count, w |-> dist[i].relativeProbability]]
    IN  {multiplier * d[1] : d \in DrawSet(itemCountArray, 1, TRUE, {})}

GetPossibleLootItemsForContainerAll(containerTpl) ==
    LET dist == StaticLootDist[containerTpl].itemDistribution
    IN  [i \in 1..Len(dist) |-> [key |-> dist[i].tpl, w |-> dist[i].relativeProbability]]

\* the pool getPossibleLootItemsForContainer builds: the container type's
\* items, without the seasonal ones while no seasonal event is active
GetPossibleLootItemsForContainer(containerTpl) ==
    LET dist == StaticLootDist[containerTpl].itemDistribution
        skip(icd) == ~seasonalEventActive /\ icd.tpl \in SeasonalItemTplBlacklist
        kept == SelectSeq(dist, LAMBDA icd : ~skip(icd))
    IN  [i \in 1..Len(kept) |-> [key |-> kept[i].tpl, w |-> kept[i].relativeProbability]]

locklist == {"ROUBLES", "DOLLARS", "EUROS"}

\* staticForced.filter(x => x.containerId === container.template.Id).map(x => x.itemTpl)
TplsForced(staticForced, containerId) ==
    LET idx == SelectIdx([i \in 1..Len(staticForced) |-> staticForced[i].containerId],
                         {containerId}, 1)
    IN  [k \in 1..Len(idx) |-> staticForced[idx[k]].itemTpl]

ChosenTplsAlwaysReplace(containerLootPool, itemCountToAdd, allowDuplicates) ==
    DrawSet(containerLootPool, itemCountToAdd, TRUE, locklist)

\* containerLootPool.draw(itemCountToAdd, allowDuplicateItemsInStaticContainers, locklist)
ChosenTpls(containerLootPool, itemCountToAdd, allowDuplicates) ==
    DrawSet(containerLootPool, itemCountToAdd, allowDuplicates, locklist)

NextContainerMapStale(map, found, width, height) == map

\* containerMap after a successful findSlotForItem
NextContainerMap(map, found, width, height) ==
    FillContainerMapWithItem(map, found.x, found.y, width, height, found.rotation)

PlacedItemsNoSlot(items, found) ==
    [items EXCEPT ![1].location = <<found.x, found.y, IF found.rotation THEN 1 ELSE 0>>]

\* the item's nodes, the first one given its slot and place in the grid
PlacedItems(items, found) ==
    [items EXCEPT ![1].slotId = "main",
                  ![1].location = <<found.x, found.y, IF found.rotation THEN 1 ELSE 0>>]

\* one turn of the loop over tplsToAddToContainer: the states it can leave;
\* st.status becomes "break" when the loop is left and "threw" when
\* createStaticLootItem fails
LootIter(st, tplToAdd, cfg) ==
    IF st.status # "run" THEN {st}
    ELSE
    {LET found == FindSlotForItem(st.map, made.width, made.height)
     IN  IF made.threw
         THEN [st EXCEPT !.status = "threw", !.nextId = made.nextId]
         ELSE IF ~found.success
         THEN IF st.failed >= cfg.fitAttempts
              THEN [st EXCEPT !.status = "break", !.nextId = made.nextId]
              ELSE [st EXCEPT !.failed = @ + 1, !.nextId = made.nextId]
         ELSE [st EXCEPT !.map = NextContainerMap(@, found, made.width, made.height),
                         !.Items = @ \o PlacedItems(made.items, found),
                         !.nextId = made.nextId] :
     made \in CreateStaticLootItem(tplToAdd, st.Items[1]._id, st.nextId, cfg.minFill)}

-----------------------------------------------------------------------------
(* addLootToContainer on one container, one loop turn per step *)

\* a container of db.loot.staticContainers[map].staticContainers
StaticContainerData(id, containerTpl, probability, isAlwaysSpawn) ==
    [probability |-> probability,
     template    |-> [Id |-> id, IsAlwaysSpawn |-> isAlwaysSpawn, Root |-> -id,
                      Items |-> <<Node(-id, containerTpl, NoId, "")>>]]

CloneKeepRoot(sc, parentId) == sc

\* jsonUtil.clone(staticContainer) with the new parent id as Root and as the
\* id of the container's own node
CloneWithNewRoot(sc, parentId) ==
    [sc EXCEPT !.template.Root = parentId, !.template.Items[1]._id = parentId]

FixerIdle ==
    /\ fpc = "idle"
    /\ tradersInfo = <<>>
    /\ tradersInfoBefore = <<>>
    /\ fixCount = 0

ReparentIdle ==
    /\ rpc = "idle"
    /\ tree = <<>>
    /\ treeBefore = <<>>
    /\ treeNewId = NoId

HttpIdle ==
    /\ hpc = "idle"
    /\ req = <<>>
    /\ serializers = <<>>
    /\ pending = <<>>
    /\ arrived = <<>>
    /\ hbuffer = <<>>
    /\ written = 0
    /\ routeLog = <<>>
    /\ writers = <<>>

ProfileIdle ==
    /\ ppc = "idle"
    /\ profile = <<>>
    /\ snapshot = <<>>
    /\ pouts = <<>>
    /\ profile0 = <<>>
    /\ snapshot0 = <<>>

GiftIdle ==
    /\ gpc = "idle"
    /\ gprofile = <<>>
    /\ flagged = <<>>
    /\ gclock = 0
    /\ gthrown = FALSE
    /\ lastCheck = <<>>

HelpersIdle ==
    /\ FixerIdle
    /\ ReparentIdle
    /\ HttpIdle
    /\ ProfileIdle
    /\ GiftIdle

DynamicIdle ==
    /\ dpc = "idle"
    /\ dcfg = <<>>
    /\ spawnpointsForced = <<>>
    /\ spawnpoints = <<>>
    /\ loot = <<>>
    /\ desiredSpawnpointCount = 0
    /\ guaranteedLoosePoints = <<>>
    /\ spawnpointArray = <<>>
    /\ drawnKeys = <<>>
    /\ chosenSpawnpoints = <<>>
    /\ pointsLeft = <<>>
    /\ shortfallLog = <<>>

StaticIdle ==
    /\ spc = "idle"
    /\ scfg = <<>>
    /\ staticContainers = <<>>
    /\ statics = <<>>
    /\ result = <<>>
    /\ queue = <<>>
    /\ mapping = <<>>
    /\ groupsLeft = <<>>
    /\ chosenLog = <<>>
    /\ logged = {}
    /\ thrown = ""

ContainerIdle ==
    /\ cpc = "idle"
    /\ ccfg = <<>>
    /\ staticContainer = <<>>
    /\ container = <<>>
    /\ containerMap = <<>>
    /\ tplsToAddToContainer = <<>>
    /\ chosenTpls = <<>>
    /\ failedToFitCount = 0
    /\ fitLog = <<>>

InitContainer ==
    /\ nextId = 1
    /\ seasonalEventActive = FALSE
    /\ cpc = "start"
    /\ ccfg \in [allowDup : BOOLEAN, fitAttempts : {1, 2}, mult : {1}, minFill : {75},
                 forced : {<<>>,
                           <<[containerId |-> 1, itemTpl |-> "key"]>>,
                           <<[containerId |-> 1, itemTpl |-> "pipe"],
                             [containerId |-> 2, itemTpl |-> "case"],
                             [containerId |-> 1, itemTpl |-> "key"]>>}]
    /\ staticContainer \in {StaticContainerData(1, t, 50, FALSE) : t \in {"crate", "safe"}}
    /\ container = <<>>
    /\ containerMap = <<>>
    /\ tplsToAddToContainer = <<>>
    /\ chosenTpls = <<>>
    /\ failedToFitCount = 0
    /\ fitLog = <<>>
    /\ StaticIdle
    /\ DynamicIdle
    /\ HelpersIdle

\* lines 316-344: the clone with its new root id, the grid, the item count
\* and the draw of the item tpls
StartContainer ==
    /\ cpc = "start"
    /\ LET containerTpl == staticContainer.template.Items[1]._tpl
           tplsForced   == TplsForced(ccfg.forced, staticContainer.template.Id)
       IN  /\ container' = CloneWithNewRoot(staticContainer, nextId).template
           /\ containerMap' = GetContainerMapping(containerTpl)
           /\ \E itemCountToAdd \in GetWeightedCountOfContainerItems(containerTpl, ccfg.mult) :
              \E drawn \in ChosenTpls(GetPossibleLootItemsForContainer(containerTpl),
                                      itemCountToAdd, ccfg.allowDup) :
                 /\ chosenTpls' = drawn
                 /\ tplsToAddToContainer' = tplsForced \o drawn
                 /\ cpc' = IF tplsForced \o drawn = <<>> THEN "done" ELSE "place"
    /\ nextId' = nextId + 1
    /\ failedToFitCount' = 0
    /\ fitLog' = <<>>
    /\ UNCHANGED <<ccfg, staticContainer>>
    /\ UNCHANGED <<seasonalEventActive, xvars, svars, dvars>>

\* lines 345-379: one turn of the loop; the loop ends when the tpls are used
\* up, on break, or when createStaticLootItem throws
PlaceItem ==
    /\ cpc = "place"
    /\ \E nx \in LootIter([Items |-> container.Items, map |-> containerMap,
                           failed |-> failedToFitCount, nextId |-> nextId,
                           status |-> "run"],
                          Head(tplsToAddToContainer), ccfg) :
           /\ container' = [container EXCEPT !.Items = nx.Items]
           /\ containerMap' = nx.map
           /\ failedToFitCount' = nx.failed
           /\ fitLog' = Append(fitLog, CASE nx.status # "run" -> nx.status
                                          [] nx.failed > failedToFitCount -> "failed"
                                          [] OTHER -> "placed")
           /\ nextId' = nx.nextId
           /\ tplsToAddToContainer' = Tail(tplsToAddToContainer)
           /\ cpc' = CASE nx.status = "threw" -> "failed"
                       [] nx.status = "break" -> "done"
                       [] Tail(tplsToAddToContainer) = <<>> -> "done"
                       [] OTHER -> "place"
    /\ UNCHANGED <<ccfg, staticContainer, chosenTpls>>
    /\ UNCHANGED <<seasonalEventActive, xvars, svars, dvars>>

NextContainer == StartContainer \/ PlaceItem

\* the variables of the loot generation
lvars == <<nextId, seasonalEventActive, cvars, svars, dvars>>

vars == <<lvars, xvars>>

SpecContainer == InitContainer /\ [][NextContainer]_vars

-----------------------------------------------------------------------------
(* Properties of addLootToContainer *)

\* indexes of the items placed in the grid (the nodes that carry a location)
PlacedIdx(items) == {i \in 1..Len(items) : items[i].location # <<>>}

\* the cells an item covers: width x height of its template at the recorded
\* x, y, swapped when the recorded rotation is 1
CellsOf(item) ==
    LET w == ItemDb[item._tpl].Width
        h == ItemDb[item._tpl].Height
    IN  IF item.location[3] = 1
        THEN Rect(item.location[1], item.location[2], h, w)
        ELSE Rect(item.location[1], item.location[2], w, h)

NoOverlapIn(items) ==
    \A i, j \in PlacedIdx(items) :
        i # j => CellsOf(items[i]) \cap CellsOf(items[j]) = {}

\* C1: after any sequence of placements made by addLootToContainer, no grid
\* cell of the container is covered by the rectangles of two placed items.
C1_NoOverlap ==
    cpc \in {"place", "done", "failed"} => NoOverlapIn(container.Items)

\* a finished container holding three placed items, one of them rotated
C1_Witness ==
    /\ cpc = "done"
    /\ Cardinality(PlacedIdx(container.Items)) >= 3
    /\ \E i \in PlacedIdx(container.Items) : container.Items[i].location[3] = 1
    /\ \E i \in PlacedIdx(container.Items) : container.Items[i].location[3] = 0

\* C6: with allowDuplicateItemsInStaticContainers false, the keys drawn for
\* one container hold no template id twice, except ROUBLES, DOLLARS and EUROS.
C6_DuplicateLock ==
    (cpc \in {"place", "done", "failed"} /\ ~ccfg.allowDup) =>
        \A i, j \in 1..Len(chosenTpls) :
            (i # j /\ chosenTpls[i] = chosenTpls[j]) =>
                chosenTpls[i] \in {"ROUBLES", "DOLLARS", "EUROS"}

\* duplicates are off, a currency was drawn twice and other items with it
C6_Witness ==
    /\ cpc = "done"
    /\ ~ccfg.allowDup
    /\ Len(chosenTpls) >= 3
    /\ \E i, j \in 1..Len(chosenTpls) : i # j /\ chosenTpls[i] = chosenTpls[j]
    /\ \E i \in 1..Len(chosenTpls) : chosenTpls[i] \notin {"ROUBLES", "DOLLARS", "EUROS"}

\* the placed root items of the container with this tpl
PlacedWithTpl(tpl) ==
    {i \in PlacedIdx(container.Items) : container.Items[i]._tpl = tpl}

\* C26 as claimed: with duplicates off no template id other than a currency
\* is the tpl of two root items placed in the container, forced items and
\* drawn items counted together.
C26_NoDuplicateRoots ==
    (cpc \in {"place", "done"} /\ ~ccfg.allowDup) =>
        \A t \in Tpls \ {"ROUBLES", "DOLLARS", "EUROS"} :
            Cardinality(PlacedWithTpl(t)) <= 1

\* C26 as amended: with duplicates off the drawn items add at most one root
\* item of a template id other than a currency to the ones staticForced
\* puts into the container; a forced tpl can so occur once more than forced.
C26_NoDuplicateDrawnRoots ==
    (cpc \in {"place", "done"} /\ ~ccfg.allowDup) =>
        \A t \in Tpls \ {"ROUBLES", "DOLLARS", "EUROS"} :
            Cardinality(PlacedWithTpl(t))
                <= 1 + Len(SelectSeq(TplsForced(ccfg.forced, staticContainer.template.Id),
                                     LAMBDA f : f = t))

\* duplicates are off, a key was forced into the container, another key was
\* drawn, and both are placed
C26_Witness ==
    /\ cpc = "done"
    /\ ~ccfg.allowDup
    /\ "key" \in Range(TplsForced(ccfg.forced, staticContainer.template.Id))
    /\ "key" \in Range(chosenTpls)
    /\ Cardinality(PlacedWithTpl("key")) = 2

RECURSIVE FailedRun(_)
\* the number of consecutive "failed" turns the log ends with
FailedRun(log) ==
    IF log = <<>> \/ log[Len(log)] # "failed" THEN 0
    ELSE 1 + FailedRun(SubSeq(log, 1, Len(log) - 1))

\* C15: the placement loop is left exactly on a failed attempt made when the
\* consecutive failed attempts before it (counted anew after every successful
\* placement) have reached fitLootIntoContainerAttempts; the pending items are
\* then dropped and the container is returned, without an error, with the
\* items placed so far
C15_ConsecutiveFitBudget ==
    (cpc \in {"place", "done"} /\ fitLog # <<>>) =>
        LET last   == fitLog[Len(fitLog)]
            before == SubSeq(fitLog, 1, Len(fitLog) - 1)
        IN  /\ last = "break" =>
                /\ FailedRun(before) = ccfg.fitAttempts
                /\ cpc = "done"
                /\ Cardinality(PlacedIdx(container.Items))
                      = Cardinality({i \in 1..Len(fitLog) : fitLog[i] = "placed"})
            /\ last = "failed" => FailedRun(before) < ccfg.fitAttempts

\* what C24 asks of the states: a weapon without default preset in the
\* container is a single node, hanging on the container's root in the slot
\* "main", with nothing hanging on it
C24_State ==
    cpc \in {"place", "done"} =>
        \A i \in 1..Len(container.Items) :
            (/\ container.Items[i]._tpl \in Tpls
             /\ IsOfBaseclass(container.Items[i]._tpl, "WEAPON")
             /\ DefaultPreset(container.Items[i]._tpl) = <<>>) =>
                /\ container.Items[i].parentId = container.Items[1]._id
                /\ container.Items[i].slotId = "main"
                /\ \A j \in 1..Len(container.Items) :
                      container.Items[j].parentId # container.Items[i]._id

\* what C24 asks of the turn that handles such a weapon: no failure, one id
\* used, at most the one node added, and the loop goes on to the next tpl
\* unless this was the last or the fit budget is used up
C24_Step ==
    (cpc = "place"
     /\ IsOfBaseclass(Head(tplsToAddToContainer), "WEAPON")
     /\ DefaultPreset(Head(tplsToAddToContainer)) = <<>>) =>
        /\ cpc' # "failed"
        /\ nextId' = nextId + 1
        /\ \/ container'.Items = container.Items
           \/ /\ Len(container'.Items) = Len(container.Items) + 1
              /\ container'.Items[Len(container'.Items)]._tpl = Head(tplsToAddToContainer)
              /\ container'.Items[Len(container'.Items)]._id = nextId
        /\ (Tail(tplsToAddToContainer) # <<>> /\ fitLog'[Len(fitLog')] # "break") =>
              cpc' = "place"

\* C24: a weapon template without default preset does not make
\* createStaticLootItem fail: the item is the bare weapon node alone, with the
\* container's root id as parentId and no magazine filled, and the rest of
\* the container's items are still processed.
C24_BareWeapon == []C24_State /\ [][C24_Step]_vars

\* a bare weapon was placed and an item drawn after it was placed too
C24_Witness ==
    /\ cpc = "done"
    /\ \E i, j \in PlacedIdx(container.Items) :
          /\ i < j
          /\ container.Items[i]._tpl = "barerifle"

\* what C25 asks of the container being filled and returned
C25_State ==
    cpc \in {"place", "done"} =>
        /\ container.Id = staticContainer.template.Id
        /\ container.Items[1] = [staticContainer.template.Items[1] EXCEPT !._id = container.Root]
        /\ container.Root > 0
        /\ container.Root # staticContainer.template.Root
        /\ \A i \in 2..Len(container.Items) :
              /\ i \in PlacedIdx(container.Items) <=>
                    container.Items[i].parentId = container.Root
              /\ i \in PlacedIdx(container.Items) => container.Items[i].slotId = "main"
        /\ staticContainer.template.Root < 0
        /\ staticContainer.template.Items[1]._id = staticContainer.template.Root
        /\ Len(staticContainer.template.Items) = 1

\* C25: the container addLootToContainer returns starts with the container
\* node itself under a newly generated _id, which is template.Root; every
\* placed root item has that id as parentId and slotId "main"; the container
\* of the table passed in is left as it was.
C25_ContainerRoot == []C25_State /\ [][staticContainer' = staticContainer]_vars

\* the returned container holds a placed weapon with its children and another
\* placed item
C25_Witness ==
    /\ cpc = "done"
    /\ \E i, j \in PlacedIdx(container.Items) :
          /\ i # j
          /\ \E k \in 1..Len(container.Items) :
                container.Items[k].parentId = container.Items[i]._id

\* the cartridge counts of the stacks hanging on the magazine items[i]
CartridgeCounts(items, i) ==
    {items[j].upd : j \in {k \in 1..Len(items) : /\ items[k].parentId = items[i]._id
                                                  /\ items[k].slotId = "cartridges"}}

\* C18: every magazine generated into a static container, the magazine of a
\* generated weapon included, holds a cartridge count between
\* minFillStaticMagazinePercent / 100 x capacity and capacity
C18_MagazineFill ==
    cpc \in {"place", "done"} =>
    \A i \in 1..Len(container.Items) :
        container.Items[i]._tpl = "mag" =>
            /\ CartridgeCounts(container.Items, i) # {}
            /\ \A count \in CartridgeCounts(container.Items, i) :
                  /\ count * 100 >= ccfg.minFill * ItemDb["mag"].maxCount
                  /\ count <= ItemDb["mag"].maxCount

-----------------------------------------------------------------------------
(* generateStaticContainers *)

RECURSIVE FoldLoot(_, _, _)
\* the loop over tplsToAddToContainer, run to its end
FoldLoot(st, tpls, cfg) ==
    IF tpls = <<>> THEN {st}
    ELSE UNION {FoldLoot(nx, Tail(tpls), cfg) : nx \in LootIter(st, Head(tpls), cfg)}

AddLootToContainerSwallow(sc, staticForced, cfg, n) ==
    LET containerTpl == sc.template.Items[1]._tpl
        cloned       == CloneWithNewRoot(sc, n)
        st0          == [Items |-> cloned.template.Items,
                         map |-> GetContainerMapping(containerTpl),
                         failed |-> 0, nextId |-> n + 1, status |-> "run"]
        draws        == UNION {ChosenTpls(GetPossibleLootItemsForContainer(containerTpl),
                                          itemCountToAdd, cfg.allowDup) :
                               itemCountToAdd \in
                                   GetWeightedCountOfContainerItems(containerTpl, cfg.mult)}
        tplsForced   == TplsForced(staticForced, sc.template.Id)
    IN  {[threw    |-> FALSE,
          logged   |-> IF st.status = "threw" THEN {"location-preset_not_found"} ELSE {},
          template |-> [cloned.template EXCEPT !.Items = st.Items],
          nextId   |-> st.nextId] :
         st \in UNION {FoldLoot(st0, tplsForced \o drawn, cfg) : drawn \in draws}}

\* addLootToContainer: the containers it can return for one container of the
\* table, each with the id counter it leaves; threw when an item failed to
\* build, with the warning createStaticLootItem logs before it rethrows
AddLootToContainer(sc, staticForced, cfg, n) ==
    LET containerTpl == sc.template.Items[1]._tpl
        cloned       == CloneWithNewRoot(sc, n)
        st0          == [Items |-> cloned.template.Items,
                         map |-> GetContainerMapping(containerTpl),
                         failed |-> 0, nextId |-> n + 1, status |-> "run"]
        draws        == UNION {ChosenTpls(GetPossibleLootItemsForContainer(containerTpl),
                                          itemCountToAdd, cfg.allowDup) :
                               itemCountToAdd \in
                                   GetWeightedCountOfContainerItems(containerTpl, cfg.mult)}
        tplsForced   == TplsForced(staticForced, sc.template.Id)
    IN  {[threw    |-> st.status = "threw",
          logged   |-> IF st.status = "threw" THEN {"location-preset_not_found"} ELSE {},
          template |-> [cloned.template EXCEPT !.Items = st.Items],
          nextId   |-> st.nextId] :
         st \in UNION {FoldLoot(st0, tplsForced \o drawn, cfg) : drawn \in draws}}

containerTypesToNotRandomise == {"drawer"}

GetRandomisableContainersKeepAlwaysSpawn(containers) ==
    LET keep(x) == /\ x.probability # 100
                   /\ x.template.Items[1]._tpl \notin containerTypesToNotRandomise
    IN  SelectSeq(containers, keep)

GetRandomisableContainersOnMap(containers) ==
    LET keep(x) == /\ x.probability # 100
                   /\ ~x.template.IsAlwaysSpawn
                   /\ x.template.Items[1]._tpl \notin containerTypesToNotRandomise
    IN  SelectSeq(containers, keep)

GetGuaranteedContainersNone(containers) == <<>>

GetGuaranteedContainersNoAlwaysSpawn(containers) ==
    LET keep(x) == \/ x.probability = 100
                   \/ x.template.Items[1]._tpl \in containerTypesToNotRandomise
    IN  SelectSeq(containers, keep)

GetGuaranteedContainers(containers) ==
    LET keep(x) == \/ x.probability = 100
                   \/ x.template.IsAlwaysSpawn
                   \/ x.template.Items[1]._tpl \in containerTypesToNotRandomise
    IN  SelectSeq(containers, keep)

\* the ids getContainersByProbabilty can return for a group
GetContainersByProbabilty(data, defaultReplacement) ==
    LET containerIds == [i \in 1..Len(data.containerIdsWithProbability) |->
                            data.containerIdsWithProbability[i].key]
    IN  IF data.chosenCount > Len(containerIds)
        THEN {containerIds}
        ELSE DrawSet(data.containerIdsWithProbability, data.chosenCount,
                     defaultReplacement, {})

\* getGroupIdToContainerMappings, given the count randomUtil.getInt chose for
\* the group: the named group first, then the group "" of the containers
\* without a group; containers the statics do not know are left out
GetGroupIdToContainerMappings(containersOnMap, groupOf, chosenCount) ==
    LET members(g) == SelectIdx([i \in 1..Len(containersOnMap) |->
                                    IF containersOnMap[i].template.Id \in DOMAIN groupOf
                                       /\ containersOnMap[i].probability # 100
                                    THEN groupOf[containersOnMap[i].template.Id]
                                    ELSE "none"], {g}, 1)
        pool(g)    == [k \in 1..Len(members(g)) |->
                          [key |-> containersOnMap[members(g)[k]].template.Id,
                           w   |-> containersOnMap[members(g)[k]].probability]]
    IN  [g \in {"g1", ""} |->
            [containerIdsWithProbability |-> pool(g),
             chosenCount |-> IF g = "" THEN -1 ELSE chosenCount]]

\* the subsequence of s at the indexes in S, in order
SubSeqAt(s, S) == LET idx == SeqOfSet(S) IN [k \in 1..Len(idx) |-> s[idx[k]]]

\* the group "": every container is rolled with getChance100(probability * 100);
\* the containers that pass stay, and the count becomes their number
RollEmptyGroup(data) ==
    LET pool == data.containerIdsWithProbability
    IN  {[containerIdsWithProbability |-> SubSeqAt(pool, S), chosenCount |-> Cardinality(S)] :
         S \in {T \in SUBSET (1..Len(pool)) :
                   \A i \in 1..Len(pool) : /\ pool[i].w >= 100 => i \in T
                                           /\ pool[i].w <= 0 => i \notin T}}

\* the containers of the map the chosen ids name, in the order chosen; an id
\* that names none is passed over
LookUpChosen(containersOnMap, chosenContainerIds) ==
    LET ids   == [i \in 1..Len(containersOnMap) |-> containersOnMap[i].template.Id]
        found == SelectIdx(chosenContainerIds, Range(ids), 1)
    IN  [k \in 1..Len(found) |->
            containersOnMap[CHOOSE i \in 1..Len(ids) :
                               /\ ids[i] = chosenContainerIds[found[k]]
                               /\ \A j \in 1..(i - 1) : ids[j] # ids[i]]]

\* db.loot.staticContainers[map].staticWeapons
StaticWeaponsOnMap ==
    <<[Id |-> 900, IsAlwaysSpawn |-> FALSE, Root |-> -900,
       Items |-> <<Node(-900, "rifle", NoId, ""),
                   Node(-901, "mag", -900, "mod_magazine")>>]>>

\* db.loot.staticContainers[map].staticForced
StaticForcedOnMap == <<[containerId |-> 1, itemTpl |-> "key"]>>

\* the settings addLootToContainer reads from locationConfig
StaticLootCfg == [allowDup |-> FALSE, fitAttempts |-> 1, mult |-> 1, minFill |-> 75]

\* what a container of the table can be: probability, IsAlwaysSpawn, type, group
ContainerProfiles ==
    {[probability |-> 100, always |-> FALSE, tpl |-> "bag",    groupId |-> "g1"],
     [probability |-> 50,  always |-> TRUE,  tpl |-> "bag",    groupId |-> ""],
     [probability |-> 50,  always |-> FALSE, tpl |-> "drawer", groupId |-> "g1"],
     [probability |-> 50,  always |-> FALSE, tpl |-> "bag",    groupId |-> "g1"],
     [probability |-> 0,   always |-> FALSE, tpl |-> "bag",    groupId |-> "g1"],
     [probability |-> 50,  always |-> FALSE, tpl |-> "bag",    groupId |-> ""]}

\* the tables of db.loot.staticContainers[map] that can be missing
MissingTables ==
    {{}, {"staticWeapons"}, {"staticContainers"}, {"staticForced"},
     {"staticWeapons", "staticContainers", "staticForced"}}

InitStatic ==
    /\ nextId = 1
    /\ seasonalEventActive = FALSE
    /\ ContainerIdle
    /\ DynamicIdle
    /\ HelpersIdle
    /\ scfg \in {[enabled |-> TRUE,  mapEnabled |-> TRUE,  defaultReplacement |-> TRUE,
                  missing |-> {}],
                 [enabled |-> TRUE,  mapEnabled |-> FALSE, defaultReplacement |-> FALSE,
                  missing |-> {}],
                 [enabled |-> FALSE, mapEnabled |-> TRUE,  defaultReplacement |-> FALSE,
                  missing |-> {}]}
                \cup {[enabled |-> TRUE, mapEnabled |-> TRUE, defaultReplacement |-> FALSE,
                       missing |-> m] : m \in MissingTables}
    /\ \E prof \in [1..NumContainers -> ContainerProfiles] :
          /\ staticContainers =
                IF "staticContainers" \in scfg.missing THEN <<>>
                ELSE [i \in 1..NumContainers |->
                         StaticContainerData(i, prof[i].tpl, prof[i].probability,
                                             prof[i].always)]
          /\ statics = [i \in 1..NumContainers |-> prof[i].groupId]
    /\ spc = "start"
    /\ result = <<>>
    /\ queue = <<>>
    /\ mapping = <<>>
    /\ groupsLeft = <<>>
    /\ chosenLog = <<>>
    /\ logged = {}
    /\ thrown = ""

\* lines 73-107: the three tables are cloned, an error is logged for each one
\* that is missing, the mounted weapons are pushed and the guaranteed
\* containers are found. The clone of a missing table is undefined:
\* staticWeaponsOnMap ?? [] stands in for the weapons, while line 92 hands
\* the undefined container table to getRandomisableContainersOnMap, whose
\* .filter (line 207) throws a TypeError
LoadTables ==
    /\ spc = "start"
    /\ result' = IF "staticWeapons" \in scfg.missing THEN <<>> ELSE StaticWeaponsOnMap
    /\ IF "staticContainers" \in scfg.missing
       THEN /\ logged' = {"Unable to find static weapon data" :
                             x \in {"staticWeapons"} \cap scfg.missing}
                         \cup {"Unable to find static container data"}
            /\ thrown' = "TypeError"
            /\ spc' = "failed"
            /\ queue' = <<>>
       ELSE /\ logged' = {"Unable to find static weapon data" :
                             x \in {"staticWeapons"} \cap scfg.missing}
                         \cup {"Unable to find forced static data" :
                                  x \in {"staticForced"} \cap scfg.missing}
            /\ thrown' = ""
            /\ spc' = "guaranteed"
            /\ queue' = GetGuaranteedContainers(staticContainers)
    /\ UNCHANGED <<nextId, scfg, staticContainers, statics, mapping, groupsLeft, chosenLog>>
    /\ UNCHANGED <<seasonalEventActive, xvars, cvars, dvars>>

\* one turn of a loop that adds loot to a container and pushes it (lines
\* 110-114, 122-126, 178-192); an exception inside addLootToContainer ends the
\* pass. With staticForced undefined, staticForced.filter (line 333) throws a
\* TypeError after the container's new id was generated
PopulateContainer ==
    /\ spc \in {"guaranteed", "all", "groups"}
    /\ queue # <<>>
    /\ IF "staticForced" \in scfg.missing
       THEN /\ nextId' = nextId + 1
            /\ thrown' = "TypeError"
            /\ spc' = "failed"
            /\ UNCHANGED <<result, queue, logged>>
       ELSE \E out \in AddLootToContainer(Head(queue), StaticForcedOnMap, StaticLootCfg,
                                          nextId) :
               /\ nextId' = out.nextId
               /\ logged' = logged \cup out.logged
               /\ IF out.threw
                  THEN /\ spc' = "failed"
                       /\ thrown' = "reparentPresets"
                       /\ UNCHANGED <<result, queue>>
                  ELSE /\ result' = Append(result, out.template)
                       /\ queue' = Tail(queue)
                       /\ spc' = spc
                       /\ thrown' = thrown
    /\ UNCHANGED <<scfg, staticContainers, statics, mapping, groupsLeft, chosenLog>>
    /\ UNCHANGED <<seasonalEventActive, xvars, cvars, dvars>>

\* lines 118-121: randomisation is off globally or for this map
RandomisationOff ==
    /\ spc = "guaranteed"
    /\ queue = <<>>
    /\ ~scfg.enabled \/ ~scfg.mapEnabled
    /\ queue' = GetRandomisableContainersOnMap(staticContainers)
    /\ spc' = "all"
    /\ UNCHANGED <<nextId, scfg, staticContainers, statics, result, mapping,
                   groupsLeft, chosenLog, logged, thrown>>
    /\ UNCHANGED <<seasonalEventActive, xvars, cvars, dvars>>

\* lines 131-133: the groups, each with the count drawn for it
BuildMapping ==
    /\ spc = "guaranteed"
    /\ queue = <<>>
    /\ scfg.enabled /\ scfg.mapEnabled
    /\ \E chosenCount \in 0..MaxGroupCount :
          mapping' = GetGroupIdToContainerMappings(
                        GetRandomisableContainersOnMap(staticContainers), statics, chosenCount)
    /\ groupsLeft' = <<"g1", "">>
    /\ spc' = "groups"
    /\ UNCHANGED <<nextId, scfg, staticContainers, statics, result, queue, chosenLog,
                   logged, thrown>>
    /\ UNCHANGED <<seasonalEventActive, xvars, cvars, dvars>>

\* lines 136-177: the next group of the mapping, up to the choice of its containers
NextGroup ==
    /\ spc = "groups"
    /\ queue = <<>>
    /\ groupsLeft # <<>>
    /\ groupsLeft' = Tail(groupsLeft)
    /\ LET groupId == Head(groupsLeft)
           data    == mapping[groupId]
       IN  IF data.chosenCount = 0 \/ Len(data.containerIdsWithProbability) = 0
           THEN UNCHANGED <<mapping, queue, chosenLog>>
           ELSE \E rolled \in (IF groupId = "" THEN RollEmptyGroup(data) ELSE {data}) :
                   /\ mapping' = [mapping EXCEPT ![groupId] = rolled]
                   /\ IF rolled.chosenCount = 0
                      THEN UNCHANGED <<queue, chosenLog>>
                      ELSE \E chosenContainerIds \in
                                  GetContainersByProbabilty(rolled, scfg.defaultReplacement) :
                              /\ queue' = LookUpChosen(
                                            GetRandomisableContainersOnMap(staticContainers),
                                            chosenContainerIds)
                              /\ chosenLog' = Append(chosenLog,
                                                [groupId |-> groupId, data |-> rolled,
                                                 chosen |-> chosenContainerIds])
    /\ UNCHANGED <<nextId, scfg, staticContainers, statics, result, spc, logged, thrown>>
    /\ UNCHANGED <<seasonalEventActive, xvars, cvars, dvars>>

\* lines 128 and 197: the result is returned
ReturnResult ==
    /\ spc \in {"all", "groups"}
    /\ queue = <<>>
    /\ spc = "groups" => groupsLeft = <<>>
    /\ spc' = "done"
    /\ UNCHANGED <<nextId, scfg, staticContainers, statics, result, queue, mapping,
                   groupsLeft, chosenLog, logged, thrown>>
    /\ UNCHANGED <<seasonalEventActive, xvars, cvars, dvars>>

NextStatic ==
    \/ LoadTables
    \/ PopulateContainer
    \/ RandomisationOff
    \/ BuildMapping
    \/ NextGroup
    \/ ReturnResult

SpecStatic == InitStatic /\ [][NextStatic]_vars

-----------------------------------------------------------------------------
(* Properties of generateStaticContainers *)

\* the places of the result that hold the container with this template id
ResultIdx(id) == {k \in 1..Len(result) : result[k].Id = id}

IsGuaranteed(x) ==
    \/ x.probability = 100
    \/ x.template.IsAlwaysSpawn
    \/ x.template.Items[1]._tpl \in containerTypesToNotRandomise

Min(a, b) == IF a <= b THEN a ELSE b

\* C10: with randomisation on, a named group with chosen count c > 0 and n > 0
\* containers in its pool has exactly min(c, n) of its containers in the
\* result, each once.
C10_GroupDrawDistinct ==
    (spc = "done" /\ scfg.enabled /\ scfg.mapEnabled) =>
        LET data == mapping["g1"]
            pool == data.containerIdsWithProbability
            ids  == {pool[i].key : i \in 1..Len(pool)}
            c    == data.chosenCount
            n    == Len(pool)
        IN  (c > 0 /\ n > 0) =>
               /\ \A id \in ids : Cardinality(ResultIdx(id)) <= 1
               /\ Cardinality({id \in ids : ResultIdx(id) # {}}) = Min(c, n)

\* the randomisable containers of the table the statics put in this group
GroupMembers(groupId) ==
    {i \in 1..Len(staticContainers) :
        /\ statics[staticContainers[i].template.Id] = groupId
        /\ staticContainers[i].probability # 100
        /\ ~staticContainers[i].template.IsAlwaysSpawn
        /\ staticContainers[i].template.Items[1]._tpl \notin containerTypesToNotRandomise}

\* the ids the rolls of the group "" kept
RolledIn ==
    {mapping[""].containerIdsWithProbability[k].key :
        k \in 1..Len(mapping[""].containerIdsWithProbability)}

\* C11: with randomisation on, the containers of the group "" that are in the
\* result are exactly the ones whose roll succeeded, each of them once.
C11_EmptyGroupRolls ==
    (spc = "done" /\ scfg.enabled /\ scfg.mapEnabled) =>
        \A i \in GroupMembers("") :
            Cardinality(ResultIdx(staticContainers[i].template.Id))
                = (IF staticContainers[i].template.Id \in RolledIn THEN 1 ELSE 0)

C19_ZeroWeightNeverChosen ==
    (spc = "done" /\ scfg.enabled /\ scfg.mapEnabled) =>
        \A i \in GroupMembers("g1") \cup GroupMembers("") :
            staticContainers[i].probability = 0 =>
                ResultIdx(staticContainers[i].template.Id) = {}

\* the errors lines 79-82, 88-91 and 96-99 log for a missing table
MissingDataErrors ==
    {"Unable to find static weapon data", "Unable to find static container data",
     "Unable to find forced static data"}

\* C13: when staticWeapons, staticContainers or staticForced is missing for
\* the map, the pass logs an error and goes on to return normally, with an
\* empty list in place of the missing containers: no exception ends it on
\* account of the missing table.
C13_MissingDataNoThrow ==
    (scfg.missing # {} /\ spc # "start") =>
        /\ logged \cap MissingDataErrors # {}
        /\ thrown # "TypeError"
        /\ (spc = "done" /\ "staticContainers" \in scfg.missing) =>
              result = (IF "staticWeapons" \in scfg.missing THEN <<>> ELSE StaticWeaponsOnMap)

\* C14: once the reparenting of a weapon's default preset has failed (the
\* warning is logged), the pass has ended with that exception and never
\* returns a list: neither the containers pushed before nor the failing one.
C14_PresetFailureFatal ==
    "location-preset_not_found" \in logged =>
        /\ spc = "failed"
        /\ thrown = "reparentPresets"

\* the preset failed in a container visited after another was already pushed
C14_Witness ==
    /\ spc = "failed"
    /\ thrown = "reparentPresets"
    /\ "location-preset_not_found" \in logged
    /\ Len(result) > Len(StaticWeaponsOnMap)
    /\ queue # <<>>

-----------------------------------------------------------------------------
(* generateDynamicLoot *)

RECURSIVE CollectChildren(_, _, _)
\* itemHelper.findAndReturnChildrenAsItems: the base item first, then, in the
\* order of the array, every item hanging on the base item or on an item
\* already collected
CollectChildren(items, baseItemId, list) ==
    IF items = <<>> THEN list
    ELSE LET item == Head(items)
         IN  CollectChildren(Tail(items), baseItemId,
                CASE item._id = baseItemId -> <<item>> \o list
                  [] item.parentId = baseItemId
                     \/ \E k \in 1..Len(list) : list[k]._id = item.parentId ->
                        Append(list, item)
                  [] OTHER -> list)

FindAndReturnChildrenAsItems(items, baseItemId) == CollectChildren(items, baseItemId, <<>>)

ReparentItemAndChildrenRootOnly(itemWithChildren, newId) ==
    [i \in 1..Len(itemWithChildren) |->
        [itemWithChildren[i] EXCEPT !._id = IF i = 1 THEN newId ELSE @]]

\* reparentItemAndChildren: the base item gets newId and so does every
\* parentId that was the base item's old id
ReparentItemAndChildren(itemWithChildren, newId) ==
    LET oldId == itemWithChildren[1]._id
    IN  [i \in 1..Len(itemWithChildren) |->
            [itemWithChildren[i] EXCEPT
                !._id = IF i = 1 THEN newId ELSE @,
                !.parentId = IF @ = oldId THEN newId ELSE @]]

\* createDynamicLootItem: the item's nodes and the id counter left
CreateDynamicLootItem(chosenComposedKey, spawnPoint, n, minFillLooseMagazinePercent) ==
    LET items      == spawnPoint.template.Items
        chosenItem == items[CHOOSE i \in 1..Len(items) :
                              /\ items[i]._id = chosenComposedKey
                              /\ \A j \in 1..(i - 1) : items[j]._id # chosenComposedKey]
        chosenTpl  == chosenItem._tpl
    IN  CASE IsOfBaseclass(chosenTpl, "MONEY") \/ IsOfBaseclass(chosenTpl, "AMMO") ->
                {[items |-> <<Node(n, chosenTpl, NoId, "")>>, nextId |-> n + 1]}
          [] IsOfBaseclass(chosenTpl, "MAGAZINE") ->
                FillMagazineWithRandomCartridge(Node(n, chosenTpl, NoId, ""), n + 1,
                                                minFillLooseMagazinePercent)
          [] OTHER ->
                {[items  |-> ReparentItemAndChildren(
                                FindAndReturnChildrenAsItems(items, chosenItem._id), n),
                  nextId |-> n + 1]}

\* lines 601-602 and 626-627: the forced template gets a new id as its Root
\* and as the id of its first item
RewriteRoot(template, id) == [template EXCEPT !.Root = id, !.Items[1]._id = id]

\* the first element of s with this locationId
FindByLocation(s, locationId) ==
    s[CHOOSE i \in 1..Len(s) : /\ s[i].locationId = locationId
                               /\ \A j \in 1..(i - 1) : s[j].locationId # locationId]

RootTplIn(s, tpls) ==
    SelectIdx([i \in 1..Len(s) |-> s[i].template.Items[1]._tpl], tpls, 1)

RECURSIVE ForceSingle(_, _, _)
\* lines 576-605: for every tpl of forcedLootSingleSpawnById one of its spawn
\* positions is drawn and pushed; acc is [loot, nextId]
ForceSingle(acc, forcedSpawnPoints, lootToForceSingleAmountOnMap) ==
    IF lootToForceSingleAmountOnMap = <<>> THEN {acc}
    ELSE LET itemTpl == Head(lootToForceSingleAmountOnMap)
             idx     == RootTplIn(forcedSpawnPoints, {itemTpl})
             items   == [k \in 1..Len(idx) |-> forcedSpawnPoints[idx[k]]]
             pool    == [k \in 1..Len(items) |->
                            [key |-> items[k].locationId, w |-> items[k].probability]]
             push(a, d) ==
                 IF d = <<>> THEN a
                 ELSE [loot   |-> Append(a.loot,
                                    RewriteRoot(FindByLocation(items, d[1]).template, a.nextId)),
                       nextId |-> a.nextId + 1]
         IN  IF items = <<>>
             THEN ForceSingle(acc, forcedSpawnPoints, Tail(lootToForceSingleAmountOnMap))
             ELSE UNION {ForceSingle(push(acc, d), forcedSpawnPoints,
                                     Tail(lootToForceSingleAmountOnMap)) :
                         d \in DrawSet(pool, 1, FALSE, {})}

SkipNothing(forcedLootItem, single) == FALSE

\* lines 613-617: a spawn position of a tpl handled above is passed over
SkipSingle(forcedLootItem, single) ==
    single.defined /\ forcedLootItem.template.Items[1]._tpl \in Range(single.list)

\* lines 619-623: a seasonal item is passed over while no seasonal event is active
SkipSeasonal(forcedLootItem) ==
    /\ ~seasonalEventActive
    /\ forcedLootItem.template.Items[1]._tpl \in SeasonalItemTplBlacklist

RECURSIVE ForceRest(_, _, _)
\* lines 611-629: the remaining forced loot
ForceRest(acc, forcedSpawnPoints, single) ==
    IF forcedSpawnPoints = <<>> THEN acc
    ELSE LET forcedLootItem == Head(forcedSpawnPoints)
         IN  ForceRest(
                IF SkipSingle(forcedLootItem, single) \/ SkipSeasonal(forcedLootItem) THEN acc
                ELSE [loot   |-> Append(acc.loot, RewriteRoot(forcedLootItem.template, acc.nextId)),
                      nextId |-> acc.nextId + 1],
                Tail(forcedSpawnPoints), single)

\* addForcedLoot: the [loot, nextId] it can leave
AddForcedLoot(lootIn, forcedSpawnPoints, single, n) ==
    {ForceRest(acc, forcedSpawnPoints, single) :
     acc \in ForceSingle([loot |-> lootIn, nextId |-> n], forcedSpawnPoints,
                         IF single.defined THEN single.list ELSE <<>>)}

DedupKeepAll(points) == points

DedupFirstWins(points) ==
    LET firsts == {i \in 1..Len(points) :
                      \A j \in 1..(i - 1) : points[j].locationId # points[i].locationId}
        idx == SeqOfSet(firsts)
    IN  [k \in 1..Len(idx) |-> points[idx[k]]]

\* [...new Map(points.map(x => [x.locationId, x])).values()]: one point per
\* locationId, at the place of the first and with the value of the last
DedupByLocationId(points) ==
    LET firsts == {i \in 1..Len(points) :
                      \A j \in 1..(i - 1) : points[j].locationId # points[i].locationId}
        last(i) == CHOOSE j \in 1..Len(points) :
                      /\ points[j].locationId = points[i].locationId
                      /\ \A k \in (j + 1)..Len(points) :
                            points[k].locationId # points[i].locationId
        idx == SeqOfSet(firsts)
    IN  [k \in 1..Len(idx) |-> points[last(idx[k])]]

\* lines 494-512: the points that are not blacklisted, split into the ones
\* with probability 1 and the pool of the others
NotBlacklistedIdx(points, blacklistedPoints, probs) ==
    SelectIdx([i \in 1..Len(points) |->
                  IF points[i].template.Id \in blacklistedPoints THEN -1
                  ELSE points[i].probability], probs, 1)

GuaranteedLoosePoints(points, blacklistedPoints) ==
    LET idx == NotBlacklistedIdx(points, blacklistedPoints, {100})
    IN  [k \in 1..Len(idx) |-> points[idx[k]]]

SpawnpointArray(points, blacklistedPoints) ==
    LET idx == NotBlacklistedIdx(points, blacklistedPoints, 0..99)
    IN  [k \in 1..Len(idx) |->
            [key |-> points[idx[k]].template.Id, w |-> points[idx[k]].probability,
             data |-> points[idx[k]]]]

\* spawnpointArray.data(key)
DataOf(pool, key) ==
    pool[CHOOSE i \in 1..Len(pool) :
            pool[i].key = key /\ \A j \in 1..(i - 1) : pool[j].key # key].data


\* dynamicLootDist.spawnpointsForced: two positions of a key, whose templates
\* have the same Id (line 590), a rifle with its magazine, and a seasonal item
SpawnpointsForcedOnMap ==
    <<[locationId |-> "F1", probability |-> 50,
       template |-> [Id |-> 101, Position |-> "F1", Root |-> -1011, Items |-> <<Node(-1011, "key", NoId, "")>>]],
      [locationId |-> "F2", probability |-> 30,
       template |-> [Id |-> 101, Position |-> "F2", Root |-> -1021, Items |-> <<Node(-1021, "key", NoId, "")>>]],
      [locationId |-> "F3", probability |-> 100,
       template |-> [Id |-> 103, Position |-> "F3", Root |-> -1031,
                     Items |-> <<Node(-1031, "rifle", NoId, ""),
                                 Node(-1032, "mag", -1031, "mod_magazine")>>]],
      [locationId |-> "F4", probability |-> 100,
       template |-> [Id |-> 104, Position |-> "F4", Root |-> -1041,
                     Items |-> <<Node(-1041, "xmas", NoId, "")>>]]>>

\* a spawn point of dynamicLootDist.spawnpoints: by turns a point offering
\* roubles or a rifle with its magazine, a point offering a key or a
\* seasonal item, and a point offering a magazine
SpawnpointData(i, locationId, probability) ==
    [locationId  |-> locationId,
     probability |-> probability,
     template    |->
        [Id |-> 10 + i, Position |-> locationId, Root |-> -(10 * i + 1),
         Items |-> CASE i % 3 = 1 -> <<Node(-(10 * i + 1), "ROUBLES", NoId, ""),
                                       Node(-(10 * i + 2), "rifle", NoId, ""),
                                       Node(-(10 * i + 3), "mag", -(10 * i + 2), "mod_magazine")>>
                     [] i % 3 = 2 -> <<Node(-(10 * i + 1), "key", NoId, ""),
                                       Node(-(10 * i + 2), "xmas", NoId, "")>>
                     [] OTHER     -> <<Node(-(10 * i + 1), "mag", NoId, "")>>],
     itemDistribution |->
        IF i % 3 \in {1, 2}
        THEN <<[composedKey |-> [key |-> -(10 * i + 1)], relativeProbability |-> 3],
               [composedKey |-> [key |-> -(10 * i + 2)], relativeProbability |-> 1]>>
        ELSE <<[composedKey |-> [key |-> -(10 * i + 1)], relativeProbability |-> 1]>>]

LocationIds == [i \in 1..NumSpawnpoints |-> IF i = 1 THEN "L1" ELSE IF i = 2 THEN "L2" ELSE "L3"]

InitDynamic ==
    /\ nextId = 1
    /\ seasonalEventActive = FALSE
    /\ ContainerIdle
    /\ StaticIdle
    /\ HelpersIdle
    /\ dpc = "forced"
    /\ dcfg \in [single    : {[defined |-> FALSE, list |-> <<>>],
                              [defined |-> TRUE,  list |-> <<"key">>],
                              [defined |-> TRUE,  list |-> <<"case", "key">>]},
                 blacklist : {{}, {11}}, minFillLoose : {50}]
    /\ spawnpointsForced = SpawnpointsForcedOnMap
    /\ \E prob \in [1..NumSpawnpoints -> {50, 100}] :
       \E shared \in [1..NumSpawnpoints -> BOOLEAN] :
          /\ ~shared[1]
          /\ spawnpoints = [i \in 1..NumSpawnpoints |->
                SpawnpointData(i, IF shared[i] THEN "L1" ELSE LocationIds[i], prob[i])]
    /\ loot = <<>>
    /\ desiredSpawnpointCount = 0
    /\ guaranteedLoosePoints = <<>>
    /\ spawnpointArray = <<>>
    /\ drawnKeys = <<>>
    /\ chosenSpawnpoints = <<>>
    /\ pointsLeft = <<>>
    /\ shortfallLog = <<>>

\* line 475: addForcedLoot
ForcedLoot ==
    /\ dpc = "forced"
    /\ \E out \in AddForcedLoot(loot, spawnpointsForced, dcfg.single, nextId) :
          /\ loot' = out.loot
          /\ nextId' = out.nextId
    /\ dpc' = "choose"
    /\ UNCHANGED <<dcfg, spawnpointsForced, spawnpoints, desiredSpawnpointCount,
                   guaranteedLoosePoints, spawnpointArray, drawnKeys,
                   chosenSpawnpoints, pointsLeft, shortfallLog>>
    /\ UNCHANGED <<seasonalEventActive, xvars, cvars, svars>>

NumberTooManyRequestedNever(desired, chosen) == 0

\* line 525: the desired count less the number of the chosen points
NumberTooManyRequested(desired, chosen) == desired - Len(chosen)

\* lines 477-529: the desired count, the guaranteed points and the pool, the
\* draw, the filter of duplicate locationIds and the requested-vs-found message
ChooseSpawnpoints ==
    /\ dpc = "choose"
    /\ \E desired \in 0..MaxDesired :
       \E guaranteed \in {GuaranteedLoosePoints(spawnpoints, dcfg.blacklist)} :
       \E pool \in {SpawnpointArray(spawnpoints, dcfg.blacklist)} :
       \E drawn \in DrawSet(pool, desired, FALSE, {}) :
       \E chosen \in {DedupByLocationId(
                         guaranteed \o [k \in 1..Len(drawn) |-> DataOf(pool, drawn[k])])} :
          /\ desiredSpawnpointCount' = desired
          /\ guaranteedLoosePoints' = guaranteed
          /\ spawnpointArray' = pool
          /\ drawnKeys' = drawn
          /\ chosenSpawnpoints' = chosen
          /\ pointsLeft' = chosen
          /\ shortfallLog' = IF NumberTooManyRequested(desired, chosen) > 0
                             THEN Append(shortfallLog,
                                         [requested |-> desired + Len(guaranteed),
                                          found |-> Len(chosen)])
                             ELSE shortfallLog
    /\ dpc' = "populate"
    /\ UNCHANGED <<nextId, dcfg, spawnpointsForced, spawnpoints, loot>>
    /\ UNCHANGED <<seasonalEventActive, xvars, cvars, svars>>

\* lines 536-548: the pool of a spawn point's item keys, without the keys of
\* seasonal items while no seasonal event is active
ItemArray(spawnPoint) ==
    LET tplOf(key) == (CHOOSE x \in Range(spawnPoint.template.Items) : x._id = key)._tpl
        skip(itemDist) == /\ ~seasonalEventActive
                          /\ tplOf(itemDist.composedKey.key) \in SeasonalItemTplBlacklist
        kept == SelectSeq(spawnPoint.itemDistribution, LAMBDA itemDist : ~skip(itemDist))
    IN  [i \in 1..Len(kept) |->
            [key |-> kept[i].composedKey.key, w |-> kept[i].relativeProbability]]

\* lines 534-559: one turn of the loop over the chosen spawn points; with no
\* key to draw the lookup of the chosen item fails
PopulateSpawnpoint ==
    /\ dpc = "populate"
    /\ pointsLeft # <<>>
    /\ \E spawnPoint \in {Head(pointsLeft)} :
       \E drawn \in DrawSet(ItemArray(spawnPoint), 1, TRUE, {}) :
          IF drawn = <<>>
          THEN dpc' = "failed" /\ UNCHANGED <<loot, nextId, pointsLeft>>
          ELSE \E createItemResult \in CreateDynamicLootItem(drawn[1], spawnPoint, nextId,
                                                                dcfg.minFillLoose) :
                  /\ loot' = Append(loot,
                                [spawnPoint.template EXCEPT
                                    !.Root = createItemResult.items[1]._id,
                                    !.Items = createItemResult.items])
                  /\ nextId' = createItemResult.nextId
                  /\ pointsLeft' = Tail(pointsLeft)
                  /\ dpc' = dpc
    /\ UNCHANGED <<dcfg, spawnpointsForced, spawnpoints, desiredSpawnpointCount,
                   guaranteedLoosePoints, spawnpointArray, drawnKeys, chosenSpawnpoints,
                   shortfallLog>>
    /\ UNCHANGED <<seasonalEventActive, xvars, cvars, svars>>

\* line 561
ReturnLoot ==
    /\ dpc = "populate"
    /\ pointsLeft = <<>>
    /\ dpc' = "done"
    /\ UNCHANGED <<nextId, dcfg, spawnpointsForced, spawnpoints, loot,
                   desiredSpawnpointCount, guaranteedLoosePoints, spawnpointArray,
                   drawnKeys, chosenSpawnpoints, pointsLeft, shortfallLog>>
    /\ UNCHANGED <<seasonalEventActive, xvars, cvars, svars>>

NextDynamic ==
    \/ ForcedLoot
    \/ ChooseSpawnpoints
    \/ PopulateSpawnpoint
    \/ ReturnLoot

SpecDynamic == InitDynamic /\ [][NextDynamic]_vars

-----------------------------------------------------------------------------
(* Properties of generateDynamicLoot *)

\* the places of the loot that hold the template with this id
LootIdx(id) == {k \in 1..Len(loot) : loot[k].Id = id}

\* the guaranteed points followed by the drawn ones: the list the duplicate
\* locationIds are filtered out of
CombinedPoints ==
    guaranteedLoosePoints \o
        [k \in 1..Len(drawnKeys) |-> DataOf(spawnpointArray, drawnKeys[k])]

\* C3 as claimed: every non-blacklisted spawn point with probability 1 is in
\* the output, whatever else is chosen.
C3_GuaranteedPointAlways ==
    dpc = "done" =>
        \A i \in 1..Len(spawnpoints) :
            (spawnpoints[i].probability = 100
             /\ spawnpoints[i].template.Id \notin dcfg.blacklist) =>
                LootIdx(spawnpoints[i].template.Id) # {}

\* C3 as amended: a non-blacklisted spawn point with probability 1 is in the
\* output exactly when no point after it in the list of guaranteed-then-drawn
\* points has its locationId; the last point of a locationId takes the place.
\* More guaranteed points than the desired count does not remove any.
C3_GuaranteedPointUnlessShadowed ==
    dpc = "done" =>
        \A i \in 1..Len(CombinedPoints) :
            CombinedPoints[i].probability = 100 =>
                ( LootIdx(CombinedPoints[i].template.Id) # {}
                  <=> \A j \in (i + 1)..Len(CombinedPoints) :
                         CombinedPoints[j].locationId # CombinedPoints[i].locationId )

\* more guaranteed points than desired: one of them is in the output and
\* another, with the locationId of a later point, is not
C3_Witness ==
    /\ dpc = "done"
    /\ Len(guaranteedLoosePoints) > desiredSpawnpointCount
    /\ desiredSpawnpointCount >= 1
    /\ \E i, j \in 1..Len(guaranteedLoosePoints) :
          /\ LootIdx(guaranteedLoosePoints[i].template.Id) # {}
          /\ LootIdx(guaranteedLoosePoints[j].template.Id) = {}

Max(a, b) == IF a >= b THEN a ELSE b

\* C23: the guaranteed points count toward the desired count D, the drawn
\* points only make up the difference: with g guaranteed points no more than
\* max(D, g) non-forced spawn points are chosen.
C23_GuaranteedCountTowardDesired ==
    dpc \in {"populate", "done"} =>
        Len(chosenSpawnpoints) <= Max(desiredSpawnpointCount, Len(guaranteedLoosePoints))

ForcedIds == {spawnpointsForced[i].template.Id : i \in 1..Len(spawnpointsForced)}

\* the places of the loot that hold a forced spawn point with this root tpl
ForcedLootWithTpl(tpl) ==
    {k \in 1..Len(loot) : loot[k].Id \in ForcedIds /\ loot[k].Items[1]._tpl = tpl}

\* C7: for each tpl of forcedLootSingleSpawnById with a forced position, the
\* output holds exactly one forced spawn point with that root tpl, one of the
\* candidates.
C7_SingleSpawnOnce ==
    (dpc \in {"choose", "populate", "done"} /\ dcfg.single.defined) =>
        \A t \in Range(dcfg.single.list) :
            RootTplIn(spawnpointsForced, {t}) # <<>> =>
                /\ Cardinality(ForcedLootWithTpl(t)) = 1
                /\ \A k \in ForcedLootWithTpl(t) :
                      \E c \in Range(RootTplIn(spawnpointsForced, {t})) :
                          spawnpointsForced[c].template.Position = loot[k].Position

\* the key has two positions, the second is the one emitted, and the rifle that
\* is not on the list is emitted too
C7_Witness ==
    /\ dpc = "done"
    /\ dcfg.single.defined
    /\ Len(RootTplIn(spawnpointsForced, {"key"})) = 2
    /\ \A k \in LootIdx(101) : loot[k].Position = "F2"
    /\ LootIdx(101) # {}
    /\ LootIdx(103) # {}

\* C8 as claimed: when the pool holds k points and the desired count D is
\* greater, the pass does not fail, all k points are drawn and the shortfall is
\* logged with the requested and found counts, whatever the number of
\* guaranteed points; with none the chosen list has k points and D - k is short.
C8_ShortfallAlwaysLogged ==
    (dpc \in {"populate", "done", "failed"}
     /\ desiredSpawnpointCount > Len(spawnpointArray)) =>
        /\ dpc # "failed"
        /\ Len(drawnKeys) = Len(spawnpointArray)
        /\ Range(drawnKeys) = {spawnpointArray[i].key : i \in 1..Len(spawnpointArray)}
        /\ Len(shortfallLog) = 1
        /\ shortfallLog[1].found = Len(chosenSpawnpoints)
        /\ guaranteedLoosePoints = <<>> =>
              /\ Len(chosenSpawnpoints) = Len(spawnpointArray)
              /\ shortfallLog[1].requested - shortfallLog[1].found
                    = desiredSpawnpointCount - Len(spawnpointArray)

\* C8 as amended: when the pool holds k points and the desired count D is
\* greater, the pass does not fail and all k points are drawn; the shortfall
\* is logged exactly when D is greater than the number of points left after
\* the duplicate locationIds are filtered out, as requested = D + guaranteed
\* and found = that number; with no guaranteed point and no locationId shared
\* in the pool the chosen list has k points and D - k is short.
C8_ShortfallLoggedWhenShort ==
    (dpc \in {"populate", "done", "failed"}
     /\ desiredSpawnpointCount > Len(spawnpointArray)) =>
        /\ dpc # "failed"
        /\ Len(drawnKeys) = Len(spawnpointArray)
        /\ Range(drawnKeys) = {spawnpointArray[i].key : i \in 1..Len(spawnpointArray)}
        /\ Len(shortfallLog) = (IF desiredSpawnpointCount > Len(chosenSpawnpoints) THEN 1 ELSE 0)
        /\ \A m \in 1..Len(shortfallLog) :
              /\ shortfallLog[m].found = Len(chosenSpawnpoints)
              /\ shortfallLog[m].requested
                    = desiredSpawnpointCount + Len(guaranteedLoosePoints)
        /\ ( /\ guaranteedLoosePoints = <<>>
             /\ \A i, j \in 1..Len(spawnpointArray) :
                   i # j => spawnpointArray[i].data.locationId
                               # spawnpointArray[j].data.locationId ) =>
              /\ Len(chosenSpawnpoints) = Len(spawnpointArray)
              /\ Len(shortfallLog) = 1
              /\ shortfallLog[1].requested - shortfallLog[1].found
                    = desiredSpawnpointCount - Len(spawnpointArray)

\* three are desired, the pool holds two, one point is guaranteed: both pool
\* points are drawn and nothing is logged
C8_Witness ==
    /\ dpc = "done"
    /\ desiredSpawnpointCount = 3
    /\ Len(spawnpointArray) = 2
    /\ Len(guaranteedLoosePoints) = 1
    /\ Len(drawnKeys) = 2
    /\ Len(chosenSpawnpoints) = 3
    /\ shortfallLog = <<>>

\* C9: after the duplicates are filtered out no two chosen spawn points have
\* the same locationId, and the non-forced part of the output holds at most
\* one spawn point per locationId.
C9_OnePerLocation ==
    dpc \in {"populate", "done", "failed"} =>
        /\ \A i, j \in 1..Len(chosenSpawnpoints) :
              i # j => chosenSpawnpoints[i].locationId # chosenSpawnpoints[j].locationId
        /\ \A i, j \in 1..Len(spawnpoints) :
              ( /\ i # j
                /\ spawnpoints[i].locationId = spawnpoints[j].locationId
                /\ LootIdx(spawnpoints[i].template.Id) # {} ) =>
                    LootIdx(spawnpoints[j].template.Id) = {}

\* two chosen points shared a locationId and one of them is in the output
C9_Witness ==
    /\ dpc = "done"
    /\ Len(CombinedPoints) > Len(chosenSpawnpoints)
    /\ \E i, j \in 1..Len(spawnpoints) :
          /\ i # j
          /\ spawnpoints[i].locationId = spawnpoints[j].locationId
          /\ LootIdx(spawnpoints[i].template.Id) # {}

-----------------------------------------------------------------------------
(* One generation pass over a map: generateStaticContainers, then
   generateDynamicLoot, both taking their ids from the same generator *)

\* the containers of the pass, by turns: two bags that are likely to spawn, a
\* drawer, which holds a rifle and is not randomised, and a bag that is sure
\* to spawn
PassProfiles ==
    <<[probability |-> 50,  always |-> FALSE, tpl |-> "bag",    groupId |-> "g1"],
      [probability |-> 50,  always |-> FALSE, tpl |-> "bag",    groupId |-> "g1"],
      [probability |-> 50,  always |-> FALSE, tpl |-> "drawer", groupId |-> "g1"],
      [probability |-> 100, always |-> FALSE, tpl |-> "bag",    groupId |-> "g1"]>>

PassContainers ==
    [i \in 1..NumContainers |->
        LET prof == PassProfiles[((i - 1) % Len(PassProfiles)) + 1]
        IN  StaticContainerData(i, prof.tpl, prof.probability, prof.always)]

InitPass ==
    /\ nextId = 1
    /\ seasonalEventActive \in BOOLEAN
    /\ ContainerIdle
    /\ HelpersIdle
    /\ scfg \in {[enabled |-> TRUE,  mapEnabled |-> TRUE, defaultReplacement |-> FALSE,
                  missing |-> {}]}
                \cup (IF seasonalEventActive THEN {}
                      ELSE {[enabled |-> TRUE,  mapEnabled |-> TRUE,
                             defaultReplacement |-> TRUE, missing |-> {}],
                            [enabled |-> FALSE, mapEnabled |-> TRUE,
                             defaultReplacement |-> FALSE, missing |-> {}]})
    /\ staticContainers = PassContainers
    /\ statics = [i \in 1..NumContainers |-> "g1"]
    /\ queue = <<>>
    /\ spc = "start"
    /\ result = <<>>
    /\ mapping = <<>>
    /\ groupsLeft = <<>>
    /\ chosenLog = <<>>
    /\ logged = {}
    /\ thrown = ""
    /\ dpc = "wait"
    /\ dcfg \in [single    : {[defined |-> FALSE, list |-> <<>>]}
                             \cup (IF seasonalEventActive THEN {}
                                   ELSE {[defined |-> TRUE,  list |-> <<"key">>]}),
                 blacklist : {{}}, minFillLoose : {50}]
    /\ spawnpointsForced = SpawnpointsForcedOnMap
    /\ \E prob \in (IF seasonalEventActive THEN {50} ELSE {50, 100}) :
          spawnpoints = [i \in 1..NumSpawnpoints |->
                SpawnpointData(i, LocationIds[i], IF i % 2 = 0 THEN prob ELSE 50)]
    /\ loot = <<>>
    /\ desiredSpawnpointCount = 0
    /\ guaranteedLoosePoints = <<>>
    /\ spawnpointArray = <<>>
    /\ drawnKeys = <<>>
    /\ chosenSpawnpoints = <<>>
    /\ pointsLeft = <<>>
    /\ shortfallLog = <<>>

\* the caller has the static containers and goes on to the loose loot
StartDynamicLoot ==
    /\ spc = "done"
    /\ dpc = "wait"
    /\ dpc' = "forced"
    /\ UNCHANGED <<nextId, dcfg, spawnpointsForced, spawnpoints, loot,
                   desiredSpawnpointCount, guaranteedLoosePoints, spawnpointArray,
                   drawnKeys, chosenSpawnpoints, pointsLeft, shortfallLog>>
    /\ UNCHANGED <<seasonalEventActive, xvars, cvars, svars>>

NextPass ==
    \/ LoadTables
    \/ PopulateContainer
    \/ RandomisationOff
    \/ BuildMapping
    \/ NextGroup
    \/ ReturnResult
    \/ StartDynamicLoot
    \/ ForcedLoot
    \/ ChooseSpawnpoints
    \/ PopulateSpawnpoint
    \/ ReturnLoot

SpecPass == InitPass /\ [][NextPass]_vars

-----------------------------------------------------------------------------
(* Properties of a generation pass *)

\* the templates the pass has emitted: the mounted weapons, the populated
\* containers, the forced loot and the loose loot
Emitted == result \o loot

RECURSIVE IdsOf(_)
\* the ids of the items of these templates, one after the other
IdsOf(templates) ==
    IF templates = <<>> THEN <<>>
    ELSE [i \in 1..Len(Head(templates).Items) |-> Head(templates).Items[i]._id]
            \o IdsOf(Tail(templates))

\* C4: with an id generator that never repeats and tables of distinct ids,
\* the ids of all the items of all the emitted templates of one pass are
\* pairwise distinct.
C4_IdsDistinct ==
    LET ids == IdsOf(Emitted)
    IN  Cardinality(Range(ids)) = Len(ids)

\* one container template was populated twice, and the pass went on to emit
\* forced and loose loot
C4_Witness ==
    /\ dpc = "done"
    /\ \E k, m \in 1..Len(result) : k # m /\ result[k].Id = result[m].Id
    /\ \E k \in 1..Len(result) : Len(result[k].Items) > 3
    /\ \E k \in 1..Len(loot) : loot[k].Id = 103
    /\ \E k \in 1..Len(loot) : loot[k].Id \notin ForcedIds /\ Len(loot[k].Items) > 1

\* C5 as claimed: in every emitted template every item that has a parentId
\* has the id of another item of the same Items array there; a forced
\* template's children included, after its root id was rewritten.
C5_ParentIntegrity ==
    \A k \in 1..Len(Emitted) :
        LET items == Emitted[k].Items
        IN  \A i \in 1..Len(items) :
               items[i].parentId # NoId =>
                   \E j \in 1..Len(items) : j # i /\ items[j]._id = items[i].parentId

TableEntryOf(k) ==
    {i \in 1..Len(staticContainers) : staticContainers[i].template.Id = result[k].Id}

\* the forced spawn points of a loot list, in their order
ForcedPart(lootList) ==
    SelectSeq(lootList, LAMBDA t : t.Id \in ForcedIds)

\* the order C22 asks of the states: nothing random is drawn or emitted while
\* the forced loot is still to come, the forced spawn points head the loot,
\* the groups are drawn only when every guaranteed container is in the result,
\* and in the result no guaranteed container follows a randomisable one
C22_Order ==
    /\ dpc \in {"wait", "forced"} =>
          /\ loot = <<>>
          /\ drawnKeys = <<>>
          /\ chosenSpawnpoints = <<>>
          /\ shortfallLog = <<>>
    /\ \A k, m \in 1..Len(loot) :
          (k < m /\ loot[m].Id \in ForcedIds) => loot[k].Id \in ForcedIds
    /\ (spc \in {"all", "groups", "done"} \/ mapping # <<>> \/ chosenLog # <<>>) =>
          \A i \in 1..Len(staticContainers) :
              IsGuaranteed(staticContainers[i]) =>
                  ResultIdx(staticContainers[i].template.Id) # {}
    /\ \A k, m \in 1..Len(result) :
          (k < m /\ \E i \in TableEntryOf(m) : IsGuaranteed(staticContainers[i])) =>
              \A i \in TableEntryOf(k) : IsGuaranteed(staticContainers[i])

\* the order C22 asks of the steps: once the desired count is drawn no forced
\* spawn point is added, once the groups are drawn or a randomisable container
\* is being populated no guaranteed container is
C22_Step ==
    /\ dpc \in {"populate", "done"} => ForcedPart(loot') = ForcedPart(loot)
    /\ spc \in {"all", "groups", "done"} =>
          \A i \in 1..Len(staticContainers) :
              IsGuaranteed(staticContainers[i]) =>
                  {k \in 1..Len(result') : result'[k].Id = staticContainers[i].template.Id}
                      = ResultIdx(staticContainers[i].template.Id)

\* C22: mandatory entries are processed before random ones, in
\* generateDynamicLoot (forced before the desired count and the non-forced
\* points) and in generateStaticContainers (guaranteed before the group
\* counts and the randomisable containers), and the outputs keep that order.
C22_MandatoryFirst == []C22_Order /\ [][C22_Step]_vars

\* a pass that returned a guaranteed and a randomisable container and emitted
\* forced and non-forced loot
C22_Witness ==
    /\ spc = "done" /\ dpc = "done"
    /\ \E k, m \in 1..Len(result) :
          /\ \E i \in TableEntryOf(k) : IsGuaranteed(staticContainers[i])
          /\ \E i \in TableEntryOf(m) : ~IsGuaranteed(staticContainers[i])
    /\ \E k, m \in 1..Len(loot) : loot[k].Id \in ForcedIds /\ loot[m].Id \notin ForcedIds

-----------------------------------------------------------------------------
(* ProfileFixerService.fixNullTraderNextResupply *)

\* a nextResupply that is undefined; resupply times are never negative
Undefined == -1

\* the values a trader's nextResupply takes in the profiles checked
ResupplyValues == {Undefined, 0, 1, 1234}

FixNullTraderNextResupplyResetAll(info) ==
    [t \in DOMAIN info |-> 0]

\* fixNullTraderNextResupply: every trader whose nextResupply is undefined
\* gets 0, every other trader keeps its value
FixNullTraderNextResupply(info) ==
    [t \in DOMAIN info |-> IF info[t] = Undefined THEN 0 ELSE info[t]]

\* no loot generation is under way
LocationIdle ==
    /\ nextId = 1
    /\ seasonalEventActive = FALSE
    /\ ContainerIdle
    /\ StaticIdle
    /\ DynamicIdle

InitFixer ==
    /\ LocationIdle
    /\ ReparentIdle
    /\ HttpIdle
    /\ ProfileIdle
    /\ GiftIdle
    /\ fpc = "run"
    /\ tradersInfo \in [1..NumTraders -> ResupplyValues]
    /\ tradersInfoBefore = tradersInfo
    /\ fixCount = 0

\* one call of fixNullTraderNextResupply(pmcProfile)
FixProfile ==
    /\ fpc = "run"
    /\ fixCount < MaxFixes
    /\ tradersInfo' = FixNullTraderNextResupply(tradersInfo)
    /\ fixCount' = fixCount + 1
    /\ UNCHANGED <<fpc, tradersInfoBefore>>
    /\ UNCHANGED <<lvars, rvars, hvars, pvars, gvars>>

NextFixer == FixProfile

SpecFixer == InitFixer /\ [][NextFixer]_vars

-----------------------------------------------------------------------------
(* reparentItemAndChildren on its own *)

\* the arrays checked: up to MaxNodes nodes with ids -1, -2, ..., each hanging
\* on nothing, on a node of the array or on an id outside it (-9)
ReparentTrees ==
    UNION {{[i \in 1..n |-> Node(-i, "key", parent[i], "")] :
            parent \in [1..n -> {NoId, -9} \cup {-k : k \in 1..n}]} :
           n \in 1..MaxNodes}

InitReparent ==
    /\ LocationIdle
    /\ FixerIdle
    /\ HttpIdle
    /\ ProfileIdle
    /\ GiftIdle
    /\ rpc = "start"
    /\ tree \in ReparentTrees
    /\ treeBefore = tree
    /\ treeNewId \in {7, -2}

\* lines 707-723
Reparent ==
    /\ rpc = "start"
    /\ tree' = ReparentItemAndChildren(tree, treeNewId)
    /\ rpc' = "done"
    /\ UNCHANGED <<treeBefore, treeNewId>>
    /\ UNCHANGED <<lvars, fvars, hvars, pvars, gvars>>

NextReparent == Reparent

SpecReparent == InitReparent /\ [][NextReparent]_vars

\* C21: after reparentItemAndChildren(tree, newId) the array has the nodes it
\* had, in their order; the first node's _id is newId, the parentId of exactly
\* the nodes whose parentId was the old root id is newId, every other _id and
\* every other parentId is what it was.
C21_ReparentFrame ==
    rpc = "done" =>
        LET oldId == treeBefore[1]._id
        IN  /\ Len(tree) = Len(treeBefore)
            /\ tree[1]._id = treeNewId
            /\ \A i \in 1..Len(tree) :
                  /\ i > 1 => tree[i]._id = treeBefore[i]._id
                  /\ tree[i].parentId = (IF treeBefore[i].parentId = oldId
                                         THEN treeNewId ELSE treeBefore[i].parentId)
                  /\ tree[i]._tpl = treeBefore[i]._tpl
                  /\ tree[i].slotId = treeBefore[i].slotId

\* a node hung on the root and follows it, another hung on that node and a
\* third reference pointed outside the array: both are left alone
C21_Witness ==
    /\ rpc = "done"
    /\ Len(tree) = 3
    /\ treeBefore[2].parentId = treeBefore[1]._id
    /\ tree[2].parentId = treeNewId
    /\ treeBefore[3].parentId = treeBefore[2]._id
    /\ tree[3].parentId = treeBefore[2]._id
    /\ treeBefore[1].parentId = -9

-----------------------------------------------------------------------------
(* SptHttpListener: one request from handle to sendResponse *)

\* the longest body, in data events
MaxChunks == 2

\* the chunks a data event can carry
Chunks == {<<1>>, <<2>>, <<1, 2>>}

ChunkSeqs == UNION {[1..n -> Chunks] : n \in 0..MaxChunks}

\* the serializer lists checked: none, one that cannot or can handle the
\* output, one that cannot followed by one that can
SerializerLists == {<<>>, <<FALSE>>, <<TRUE>>, <<FALSE, TRUE>>}

RECURSIVE Concat(_)
\* the chunks of a sequence, one after the other
Concat(chunks) ==
    IF chunks = <<>> THEN <<>> ELSE Head(chunks) \o Concat(Tail(chunks))

\* what getResponse and sendResponse receive as the body
Body(kind, bytes) == [kind |-> kind, bytes |-> bytes]

\* Buffer.alloc(requestLength): requestLength zero bytes
BufferAlloc(requestLength) == [i \in 1..requestLength |-> 0]

\* every chunk copied to the start of the buffer
BufferCopyAtStart(data, buffer, at) ==
    [i \in 1..Len(buffer) |-> IF i <= Len(data) THEN data[i] ELSE buffer[i]]

\* data.copy(buffer, written, 0): the bytes of data over those of the buffer
\* from offset written on, as many as fit
BufferCopy(data, buffer, at) ==
    [i \in 1..Len(buffer) |->
        IF i > at /\ i <= at + Len(data) THEN data[i - at] ELSE buffer[i]]

\* zlib.inflateSync(buffer): the decompressed payload
Inflate(buffer) == Body("inflated", buffer)

\* line 56
RequestIsCompressed(r) == r.requestcompressed # "0"

\* line 57
RequestCompressed(r) == r.method = "PUT" \/ RequestIsCompressed(r)

\* line 59
RequestValue(r, buffer) ==
    IF RequestCompressed(r) THEN Inflate(buffer) ELSE Body("raw", buffer)

\* lines 93-112: the writers sendResponse invokes, in order
SendResponseWriters(r, sers) ==
    (IF r.responsecompressed = "0" THEN <<"sendJson">> ELSE <<>>)
    \o (IF \E i \in 1..Len(sers) : sers[i]
        THEN <<"serialize">>
        ELSE <<"sendZlibJson">>)

InitHttp ==
    /\ LocationIdle
    /\ FixerIdle
    /\ ReparentIdle
    /\ ProfileIdle
    /\ GiftIdle
    /\ hpc = "start"
    /\ serializers \in SerializerLists
    /\ pending \in ChunkSeqs
    /\ \E m \in {"GET", "POST", "PUT", "DELETE"}, rc \in {"0", "1"}, qc \in {"0", "1"},
          slack \in {0, 1} :
          /\ m \in {"GET", "DELETE"} => pending = <<>> /\ slack = 0 /\ qc = "1"
          /\ req = [method |-> m, responsecompressed |-> rc, requestcompressed |-> qc,
                    contentLength |-> Len(Concat(pending)) + slack]
    /\ arrived = <<>>
    /\ hbuffer = <<>>
    /\ written = 0
    /\ routeLog = <<>>
    /\ writers = <<>>

\* lines 30-34, up to the await of getResponse
HandleGet ==
    /\ hpc = "start"
    /\ req.method = "GET"
    /\ routeLog' = Append(routeLog, Body("undefined", <<>>))
    /\ hpc' = "routing"
    /\ UNCHANGED <<req, serializers, pending, arrived, hbuffer, written, writers>>
    /\ UNCHANGED <<lvars, fvars, rvars, pvars, gvars>>

\* lines 36-50 and 68: the buffer is allocated and the listeners are registered
HandlePost ==
    /\ hpc = "start"
    /\ req.method \in {"POST", "PUT"}
    /\ hbuffer' = BufferAlloc(req.contentLength)
    /\ written' = 0
    /\ hpc' = "receiving"
    /\ UNCHANGED <<req, serializers, pending, arrived, routeLog, writers>>
    /\ UNCHANGED <<lvars, fvars, rvars, pvars, gvars>>

\* lines 71-74: any other method is logged and dropped
HandleUnknown ==
    /\ hpc = "start"
    /\ req.method \notin {"GET", "POST", "PUT"}
    /\ hpc' = "ignored"
    /\ UNCHANGED <<req, serializers, pending, arrived, hbuffer, written, routeLog, writers>>
    /\ UNCHANGED <<lvars, fvars, rvars, pvars, gvars>>

\* lines 46-49: one data event
DataEvent ==
    /\ hpc = "receiving"
    /\ pending # <<>>
    /\ hbuffer' = BufferCopy(Head(pending), hbuffer, written)
    /\ written' = written + Len(Head(pending))
    /\ arrived' = Append(arrived, Head(pending))
    /\ pending' = Tail(pending)
    /\ UNCHANGED <<hpc, req, serializers, routeLog, writers>>
    /\ UNCHANGED <<lvars, fvars, rvars, pvars, gvars>>

\* lines 51-64: the end event, up to the await of getResponse
EndEvent ==
    /\ hpc = "receiving"
    /\ pending = <<>>
    /\ routeLog' = Append(routeLog, RequestValue(req, hbuffer))
    /\ hpc' = "routing"
    /\ UNCHANGED <<req, serializers, pending, arrived, hbuffer, written, writers>>
    /\ UNCHANGED <<lvars, fvars, rvars, pvars, gvars>>

\* lines 32 and 65: sendResponse, once getResponse has resolved
SendResponse ==
    /\ hpc = "routing"
    /\ writers' = writers \o SendResponseWriters(req, serializers)
    /\ hpc' = "sent"
    /\ UNCHANGED <<req, serializers, pending, arrived, hbuffer, written, routeLog>>
    /\ UNCHANGED <<lvars, fvars, rvars, pvars, gvars>>

NextHttp ==
    \/ HandleGet
    \/ HandlePost
    \/ HandleUnknown
    \/ DataEvent
    \/ EndEvent
    \/ SendResponse

SpecHttp == InitHttp /\ [][NextHttp]_vars

\* C27: once sendResponse has run, exactly one response writer was invoked:
\* sendJson, a serializer's serialize or sendZlibJson, whatever the
\* responsecompressed header and the serializers are.
C27_OneWriter ==
    hpc = "sent" => Len(writers) = 1

\* the request is a POST or a PUT
IsUpload == hpc # "idle" /\ req.method \in {"POST", "PUT"}

\* the request was routed once, after the end event, or not yet at all
C28_RoutedOnceAfterEnd ==
    IsUpload =>
        /\ hpc \in {"start", "receiving"} => routeLog = <<>> /\ writers = <<>>
        /\ hpc \in {"routing", "sent"} => Len(routeLog) = 1 /\ pending = <<>>

\* a data event neither routes nor responds
C28_DataStep ==
    arrived' # arrived => routeLog' = routeLog /\ writers' = writers

-----------------------------------------------------------------------------
(* ProfileHelper.getCompleteProfile *)

\* the most calls of getCompleteProfile for the session
MaxProfileCalls == 2

Levels == {1, 2}

Experiences == {100, 200}

\* an IPmcData, as far as the helper reads it; side tells pmc from scav
Character(side, level, experience) ==
    [side |-> side, Info |-> [Level |-> level, Experience |-> experience]]

Characters(side) == {Character(side, l, e) : l \in Levels, e \in Experiences}

\* no snapshot is held for the session
NoSnapshot ==
    [has |-> FALSE,
     characters |-> [pmc |-> Character("pmc", 0, 0), scav |-> Character("scav", 0, 0)]]

\* the values of the snapshot written into the stored characters themselves
PostRaidXpWorkaroundFixNoClone(fullProfile, profileSnapshot, output) ==
    LET patched(c, snap) ==
            [c EXCEPT !.Info.Level = snap.Info.Level,
                      !.Info.Experience = snap.Info.Experience]
        pmc == patched(fullProfile.characters.pmc, profileSnapshot.characters.pmc)
        scav == patched(fullProfile.characters.scav, profileSnapshot.characters.scav)
    IN  [output |-> output \o <<pmc, scav>>,
         profile |-> [fullProfile EXCEPT !.characters.pmc = pmc,
                                         !.characters.scav = scav],
         snapshot |-> NoSnapshot]

\* lines 114-136: clones of the stored characters get the snapshot's Level and
\* Experience and are pushed, pmc first; the snapshot is cleared
PostRaidXpWorkaroundFix(fullProfile, profileSnapshot, output) ==
    LET patched(c, snap) ==
            [c EXCEPT !.Info.Level = snap.Info.Level,
                      !.Info.Experience = snap.Info.Experience]
        clonedPmc == patched(fullProfile.characters.pmc, profileSnapshot.characters.pmc)
        clonedScav == patched(fullProfile.characters.scav, profileSnapshot.characters.scav)
    IN  [output |-> output \o <<clonedPmc, clonedScav>>,
         profile |-> fullProfile,
         snapshot |-> NoSnapshot]

\* lines 76-100: what is returned, and the store and the snapshot afterwards
GetCompleteProfile(fullProfile, profileSnapshot) ==
    IF fullProfile.info.wipe
    THEN [output |-> <<>>, profile |-> fullProfile, snapshot |-> profileSnapshot]
    ELSE IF profileSnapshot.has
         THEN PostRaidXpWorkaroundFix(fullProfile, profileSnapshot, <<>>)
         ELSE [output |-> <<fullProfile.characters.pmc, fullProfile.characters.scav>>,
               profile |-> fullProfile,
               snapshot |-> profileSnapshot]

InitProfile ==
    /\ LocationIdle
    /\ FixerIdle
    /\ ReparentIdle
    /\ HttpIdle
    /\ GiftIdle
    /\ ppc = "run"
    /\ \E wipe \in BOOLEAN, pmc \in Characters("pmc"), scav \in Characters("scav") :
          profile = [info |-> [wipe |-> wipe], characters |-> [pmc |-> pmc, scav |-> scav]]
    /\ \/ snapshot = NoSnapshot
       \/ \E pmc \in Characters("pmc"), scav \in Characters("scav") :
             snapshot = [has |-> TRUE, characters |-> [pmc |-> pmc, scav |-> scav]]
    /\ pouts = <<>>
    /\ profile0 = profile
    /\ snapshot0 = snapshot

\* one call of getCompleteProfile(sessionId)
CallGetCompleteProfile ==
    /\ ppc = "run"
    /\ Len(pouts) < MaxProfileCalls
    /\ \E r \in {GetCompleteProfile(profile, snapshot)} :
          /\ pouts' = Append(pouts, r.output)
          /\ profile' = r.profile
          /\ snapshot' = r.snapshot
    /\ UNCHANGED <<ppc, profile0, snapshot0>>
    /\ UNCHANGED <<lvars, fvars, rvars, hvars, gvars>>

NextProfile == CallGetCompleteProfile

SpecProfile == InitProfile /\ [][NextProfile]_vars

\* the pmc and the scav of the stored profile, in that order
StoredCharacters == <<profile0.characters.pmc, profile0.characters.scav>>

\* the stored characters with the Level and Experience of the snapshot
SnapshotCharacters ==
    <<[profile0.characters.pmc EXCEPT
          !.Info.Level = snapshot0.characters.pmc.Info.Level,
          !.Info.Experience = snapshot0.characters.pmc.Info.Experience],
      [profile0.characters.scav EXCEPT
          !.Info.Level = snapshot0.characters.scav.Info.Level,
          !.Info.Experience = snapshot0.characters.scav.Info.Experience]>>

\* C29: getCompleteProfile returns an empty list for a wiped profile and
\* otherwise the pmc then the scav; with a pre-raid snapshot the first call
\* returns copies with the snapshot's Level and Experience, the stored profile
\* is what it was and the snapshot is cleared, so the next call returns the
\* stored values.
C29_GetCompleteProfile ==
    (ppc = "run" /\ Len(pouts) >= 1) =>
        /\ profile = profile0
        /\ profile0.info.wipe => \A k \in 1..Len(pouts) : pouts[k] = <<>>
        /\ ~profile0.info.wipe =>
              /\ pouts[1] = (IF snapshot0.has THEN SnapshotCharacters ELSE StoredCharacters)
              /\ snapshot = NoSnapshot
              /\ \A k \in 2..Len(pouts) : pouts[k] = StoredCharacters

\* with a snapshot that differs from the stored profile in both characters,
\* the first call returned the snapshot's values and the second the stored ones
C29_Witness ==
    /\ ppc = "run"
    /\ Len(pouts) = 2
    /\ snapshot0.has
    /\ ~profile0.info.wipe
    /\ pouts[1] = SnapshotCharacters
    /\ pouts[2] = StoredCharacters
    /\ pouts[1][1] # pouts[2][1]
    /\ pouts[1][2] # pouts[2][2]
    /\ pouts[1][1].side = "pmc"
    /\ pouts[1][2].side = "scav"

-----------------------------------------------------------------------------
(* ProfileHelper.flagGiftReceivedInProfile and playerHasRecievedMaxNumberOfGift *)

\* the most calls of flagGiftReceivedInProfile for the player
MaxGiftCalls == 3

GiftIds == {"giftA", "giftB"}

\* the limits asked about
MaxGiftCounts == 0..(MaxGiftCalls + 1)

\* no call of playerHasRecievedMaxNumberOfGift was made
NoCheck == [giftId |-> "none", max |-> 0, k |-> 0, result |-> FALSE]

\* profile.spt.receivedGifts, [] when it is not set
ReceivedGifts(p) == IF p.hasGifts THEN p.receivedGifts ELSE <<>>

\* a new entry is pushed whether or not the gift has one
FlagGiftReceivedInProfileAlwaysPush(p, giftId, maxCount, timestamp) ==
    [p EXCEPT !.hasGifts = TRUE,
              !.receivedGifts = Append(ReceivedGifts(p),
                                       [giftId |-> giftId,
                                        timestampLastAccepted |-> timestamp,
                                        current |-> 1])]

\* lines 326-346, for a profile that exists: the first entry of the gift has
\* its counter incremented, or a new entry with current 1 is pushed
FlagGiftReceivedInProfile(p, giftId, maxCount, timestamp) ==
    LET gifts == ReceivedGifts(p)
        found == {i \in 1..Len(gifts) : gifts[i].giftId = giftId}
    IN  IF found # {}
        THEN LET i == CHOOSE j \in found : \A l \in found : j <= l
             IN  [p EXCEPT !.hasGifts = TRUE,
                           !.receivedGifts = [gifts EXCEPT ![i].current = @ + 1]]
        ELSE [p EXCEPT !.hasGifts = TRUE,
                       !.receivedGifts = Append(gifts,
                                                [giftId |-> giftId,
                                                 timestampLastAccepted |-> timestamp,
                                                 current |-> 1])]

\* lines 355-372
PlayerHasRecievedMaxNumberOfGift(p, giftId, maxGiftCount) ==
    IF ~p.exists THEN FALSE
    ELSE IF ~p.hasGifts THEN FALSE
    ELSE LET found == {i \in 1..Len(p.receivedGifts) : p.receivedGifts[i].giftId = giftId}
         IN  IF found = {} THEN FALSE
             ELSE p.receivedGifts[CHOOSE j \in found : \A l \in found : j <= l].current
                     >= maxGiftCount

InitGift ==
    /\ LocationIdle
    /\ FixerIdle
    /\ ReparentIdle
    /\ HttpIdle
    /\ ProfileIdle
    /\ gpc = "run"
    /\ \E exists \in BOOLEAN, hasGifts \in BOOLEAN :
          /\ ~exists => ~hasGifts
          /\ gprofile = [exists |-> exists, hasGifts |-> hasGifts, receivedGifts |-> <<>>]
    /\ flagged = [g \in GiftIds |-> 0]
    /\ gclock = 0
    /\ gthrown = FALSE
    /\ lastCheck = NoCheck

\* one call of flagGiftReceivedInProfile(playerId, giftId, maxCount); without
\* a profile line 330 reads spt of undefined and throws
FlagGift ==
    /\ gpc = "run"
    /\ flagged["giftA"] + flagged["giftB"] < MaxGiftCalls
    /\ \E giftId \in GiftIds, maxCount \in {1, 2} :
          IF gprofile.exists
          THEN /\ gprofile' = FlagGiftReceivedInProfile(gprofile, giftId, maxCount, gclock)
               /\ flagged' = [flagged EXCEPT ![giftId] = @ + 1]
               /\ gclock' = gclock + 1
               /\ UNCHANGED gthrown
          ELSE /\ gthrown' = TRUE
               /\ UNCHANGED <<gprofile, flagged, gclock>>
    /\ UNCHANGED <<gpc, lastCheck>>
    /\ UNCHANGED <<lvars, fvars, rvars, hvars, pvars>>

\* one call of playerHasRecievedMaxNumberOfGift(playerId, giftId, maxGiftCount)
CheckGift ==
    /\ gpc = "run"
    /\ \E giftId \in GiftIds, maxGiftCount \in MaxGiftCounts :
          lastCheck' = [giftId |-> giftId, max |-> maxGiftCount, k |-> flagged[giftId],
                        result |-> PlayerHasRecievedMaxNumberOfGift(gprofile, giftId,
                                                                     maxGiftCount)]
    /\ UNCHANGED <<gpc, gprofile, flagged, gclock, gthrown>>
    /\ UNCHANGED <<lvars, fvars, rvars, hvars, pvars>>

NextGift ==
    \/ FlagGift
    \/ CheckGift

SpecGift == InitGift /\ [][NextGift]_vars

\* the receivedGifts entries of a gift
EntriesOf(giftId) ==
    {i \in 1..Len(gprofile.receivedGifts) : gprofile.receivedGifts[i].giftId = giftId}

=============================================================================
